---- MODULE Spec2Model ----
(***************************************************************************)
(* Block engine of pyethereum (src/ethereum/blocks.py): the journaled      *)
(* account-state cache of a Block, snapshot/revert, commit_state, and the  *)
(* Block constructor with its trust path and replay path.                  *)
(*                                                                         *)
(* Hashes are modelled by the value they hash (keccak and the trie root    *)
(* are taken to be injective): the root of a trie is the trie's content,   *)
(* the hash of a header is the header.  Python objects that the code       *)
(* shares by reference (the journal list, the logs and suicides lists, the *)
(* transaction trie) live in the block's object table objs and are named   *)
(* by an identifier, so that a snapshot aliases them as in the source.     *)
(***************************************************************************)
EXTENDS Integers, Sequences, FiniteSets, TLC

\* ------------------------------------------------------------------ bounds
\* number of operations applied to the live block
MaxOps == 4
\* number of operations in the runs that commit the cache
MaxCommitOps == 5
\* number of block constructions in a run of SpecBuild
MaxBuilds == 2
\* operations of a run of writes, snapshots and reverts
MaxRevertOps == 7
\* width of a machine word: 2**256 in the source is 2^WordBits here
WordBits == 22
\* significant bits of a float, in the proportion of WordBits to 256 (53 bits
\* of an IEEE double, the float of CPython)
FloatBits == 5

TT256 == 2 ^ WordBits

\* 20-byte addresses (ordered as their byte strings are)
Addr == {1, 2}
\* storage indices
Idx == {0, 1}

\* ---------------------------------------------------------------- helpers
\* Python dict operations on a function with a finite domain
EmptyDict == [x \in {} |-> 0]
Put(f, k, v) == [x \in (DOMAIN f) \cup {k} |-> IF x = k THEN v ELSE f[x]]
Del(f, k) == [x \in (DOMAIN f) \ {k} |-> f[x]]

\* sorted(list(keys)): the keys in ascending order
RECURSIVE sorted(_)
sorted(S) ==
    IF S = {} THEN <<>>
    ELSE LET m == CHOOSE x \in S : \A y \in S : x <= y
         IN <<m>> \o sorted(S \ {m})

\* ------------------------------------------------------- codec adapters
\* utils.int_to_big_endian: hex digits of the integer, padded to an even
\* number of digits, decoded two digits to a byte
RECURSIVE hex_digits(_)
hex_digits(n) ==
    IF n < 16 THEN <<n>> ELSE Append(hex_digits(n \div 16), n % 16)

RECURSIVE decode_hex(_)
decode_hex(s) ==
    IF Len(s) = 0 THEN <<>>
    ELSE <<16 * s[1] + s[2]>> \o decode_hex(SubSeq(s, 3, Len(s)))

\* int_to_big_endian without its special case for 0
int_to_big_endian_nozero(integer) ==
    LET s == hex_digits(integer)
    IN decode_hex(IF Len(s) % 2 = 1 THEN <<0>> \o s ELSE s)

int_to_big_endian(integer) ==
    IF integer = 0 THEN <<>>
    ELSE LET s == hex_digits(integer)
         IN decode_hex(IF Len(s) % 2 = 1 THEN <<0>> \o s ELSE s)

\* utils.big_endian_to_int: '' is treated as '\x00'
RECURSIVE big_endian_to_int(_)
big_endian_to_int(string) ==
    LET str == IF string = <<>> THEN <<0>> ELSE string
    IN IF Len(str) = 1 THEN str[1]
       ELSE 256 * big_endian_to_int(SubSeq(str, 1, Len(str) - 1)) + str[Len(str)]

\* rlp.encode of an integer: the RLP string of its minimal big-endian bytes
\* (a single byte below 128 is itself, otherwise 128 + length, then the bytes)
rlp_encode_int(v) ==
    LET s == int_to_big_endian(v)
    IN IF Len(s) = 1 /\ s[1] < 128 THEN s ELSE <<128 + Len(s)>> \o s

\* rlp.decode(data, big_endian_int)
rlp_decode_int(data) ==
    IF Len(data) = 1 /\ data[1] < 128 THEN big_endian_to_int(data)
    ELSE big_endian_to_int(SubSeq(data, 2, Len(data)))

\* ------------------------------------------------------------------ tries
\* trie.BLANK_ROOT: the 32-byte root of the empty trie
BLANK_ROOT == [len |-> 32, trie |-> EmptyDict]
\* b'': the empty byte string used where a root is expected
EMPTY_BYTES == [len |-> 0, trie |-> EmptyDict]
\* Trie(db, root): the content stored under a root; b'' opens as the empty trie
TrieAt(root) == root.trie
\* Trie.root_hash
root_hash(t) == [len |-> 32, trie |-> t]

\* --------------------------------------------------------------- accounts
blank_account == [nonce |-> 0, balance |-> 0, storage |-> BLANK_ROOT, code |-> ""]

\* the caches of a fresh block, and of reset_cache
EmptyCaches ==
    [balance |-> EmptyDict, nonce |-> EmptyDict, code |-> EmptyDict,
     storage |-> EmptyDict, all |-> EmptyDict, slots |-> EmptyDict]

\* self.caches[cache]: the field caches by name, the storage caches
\* (b'storage:' + address) under slots[address]
CacheHas(c, cache, ns) == cache # "slots" \/ ns \in DOMAIN c.slots
CacheDict(c, cache, ns) == IF cache = "slots" THEN c.slots[ns] ELSE c[cache]
CacheWith(c, cache, ns, d) ==
    IF cache = "slots" THEN [c EXCEPT !.slots = Put(@, ns, d)]
    ELSE [c EXCEPT ![cache] = d]

\* a fresh object identifier
NewId(b) == CHOOSE i \in 1..(Cardinality(DOMAIN b.objs) + 1) : i \notin DOMAIN b.objs

\* Block._get_acct
get_acct(b, address) ==
    IF address \in DOMAIN b.state THEN b.state[address] ELSE blank_account

\* Block._get_acct_item: a cache miss loads the account and fills the cache
get_acct_item(b, address, param) ==
    IF address \in DOMAIN b.caches[param]
    THEN [b |-> b, ret |-> b.caches[param][address]]
    ELSE LET o == get_acct(b, address)[param]
         IN [b |-> [b EXCEPT !.caches[param] = Put(@, address, o)], ret |-> o]

\* Block.set_and_journal
set_and_journal(b, cache, ns, index, value) ==
    LET d == CacheDict(b.caches, cache, ns)
        prev == IF index \in DOMAIN d THEN <<d[index]>> ELSE <<>>
    IN IF prev # <<value>>
       THEN [b EXCEPT
               !.objs[b.journal] = Append(@, [cache |-> cache, ns |-> ns,
                                              index |-> index, prev |-> prev,
                                              post |-> <<value>>]),
               !.caches = CacheWith(b.caches, cache, ns, Put(d, index, value))]
       ELSE b

\* Block._set_acct_item
set_acct_item(b, address, param, value) ==
    set_and_journal(set_and_journal(b, param, 0, address, value),
                    "all", 0, address, TRUE)

\* _delta_item without the reduction modulo 2**256
delta_item_nomod(b, address, param, value) ==
    LET r == get_acct_item(b, address, param)
        new_value == r.ret + value
    IN IF new_value < 0 THEN [b |-> r.b, ret |-> FALSE]
       ELSE [b |-> set_acct_item(r.b, address, param, new_value), ret |-> TRUE]

\* Block._delta_item
delta_item(b, address, param, value) ==
    LET r == get_acct_item(b, address, param)
        new_value == r.ret + value
    IN IF new_value < 0 THEN [b |-> r.b, ret |-> FALSE]
       ELSE [b |-> set_acct_item(r.b, address, param, new_value % TT256),
             ret |-> TRUE]

\* Block.delta_balance
delta_balance(b, address, value) == delta_item(b, address, "balance", value)

\* a transfer that credits the receiver whatever the debit returned
transfer_value_unchecked(b, from_addr, to_addr, value) ==
    delta_balance(delta_balance(b, from_addr, 0 - value).b, to_addr, value)

\* Block.transfer_value
transfer_credit(r, to_addr, value) ==
    IF r.ret THEN delta_balance(r.b, to_addr, value)
    ELSE [b |-> r.b, ret |-> FALSE]

transfer_value(b, from_addr, to_addr, value) ==
    transfer_credit(delta_balance(b, from_addr, 0 - value), to_addr, value)

\* Block.reset_storage
RECURSIVE zero_slots(_, _, _)
zero_slots(b, address, ks) ==
    IF Len(ks) = 0 THEN b
    ELSE zero_slots(set_and_journal(b, "slots", address, ks[1], 0),
                    address, SubSeq(ks, 2, Len(ks)))

\* reset_storage without the loop over the cached slots
reset_storage_root(b, address) ==
    set_acct_item(b, address, "storage", EMPTY_BYTES)

reset_storage(b, address) ==
    LET b1 == set_acct_item(b, address, "storage", EMPTY_BYTES)
    IN IF address \in DOMAIN b1.caches.slots
       THEN zero_slots(b1, address, sorted(DOMAIN b1.caches.slots[address]))
       ELSE b1

\* Block.get_storage_data
get_storage_data(b, address, index) ==
    IF address \in DOMAIN b.caches.slots /\ index \in DOMAIN b.caches.slots[address]
    THEN [b |-> b, ret |-> b.caches.slots[address][index]]
    ELSE LET r == get_acct_item(b, address, "storage")
             t == TrieAt(r.ret)
         IN [b |-> r.b,
             ret |-> IF index \in DOMAIN t THEN rlp_decode_int(t[index]) ELSE 0]

\* Block.set_storage_data
set_storage_data(b, address, index, value) ==
    LET b1 == IF address \notin DOMAIN b.caches.slots
              THEN set_and_journal([b EXCEPT !.caches.slots = Put(@, address, EmptyDict)],
                                   "all", 0, address, TRUE)
              ELSE b
    IN set_and_journal(b1, "slots", address, index, value)

\* Block.account_exists
account_exists(b, address) ==
    address \in DOMAIN b.state \/ address \in DOMAIN b.caches.all

\* Block.add_log (no log listeners)
add_log(b, log) == [b EXCEPT !.objs[b.logs] = Append(@, log)]

\* Block.reset_cache: fresh caches and a fresh journal list
reset_cache(b) ==
    LET j == NewId(b)
    IN [b EXCEPT !.caches = EmptyCaches, !.journal = j, !.objs = Put(@, j, <<>>)]

\* one slot of commit_state's inner loop: a zero value deletes the key
RECURSIVE commit_slots(_, _, _)
commit_slots(t, slots, ks) ==
    IF Len(ks) = 0 THEN t
    ELSE LET k == ks[1]
             v == slots[k]
         IN commit_slots(IF v # 0 THEN Put(t, k, rlp_encode_int(v)) ELSE Del(t, k),
                         slots, SubSeq(ks, 2, Len(ks)))

\* one address of commit_state's loop
commit_account(b, addr) ==
    LET acct == get_acct(b, addr)
        field(f) == IF addr \in DOMAIN b.caches[f] THEN b.caches[f][addr] ELSE acct[f]
        slots == IF addr \in DOMAIN b.caches.slots THEN b.caches.slots[addr]
                 ELSE EmptyDict
        t == commit_slots(TrieAt(field("storage")), slots, sorted(DOMAIN slots))
        st == Put(b.state, addr,
                  [nonce |-> field("nonce"), balance |-> field("balance"),
                   storage |-> root_hash(t), code |-> field("code")])
    IN [b EXCEPT !.state = st, !.db = @ \cup {root_hash(st)}]

RECURSIVE commit_accounts(_, _)
commit_accounts(b, addresses) ==
    IF Len(addresses) = 0 THEN b
    ELSE commit_accounts(commit_account(b, addresses[1]),
                         SubSeq(addresses, 2, Len(addresses)))

\* commit_state without the early return on an empty journal
commit_state_noguard(b) ==
    reset_cache(commit_accounts(b, sorted(DOMAIN b.caches.all)))

\* Block.commit_state
commit_state(b) ==
    IF Len(b.objs[b.journal]) = 0 THEN b
    ELSE reset_cache(commit_accounts(b, sorted(DOMAIN b.caches.all)))

\* Block.del_account
state_delete(b, address) ==
    [b EXCEPT !.state = Del(@, address),
              !.db = @ \cup {root_hash(Del(b.state, address))}]

del_account(b, address) == state_delete(commit_state(b), address)

\* Block.state_root (getter): commits the cache, then reads the root
state_root_hash(b) == [b |-> b, ret |-> root_hash(b.state)]

state_root(b) == state_root_hash(commit_state(b))

\* Receipt.bloom: the bloom filter of the receipt's logs (the set of its bits)
receipt_bloom(logs) == {logs[i] : i \in 1..Len(logs)}

\* Block.mk_transaction_receipt
Receipt(r) ==
    [b |-> r.b,
     ret |-> [state_root |-> r.ret, gas_used |-> r.b.header.gas_used,
              logs |-> r.b.objs[r.b.logs]]]

mk_transaction_receipt(b, tx) == Receipt(state_root(b))

\* Block.add_transaction_to_list
add_receipt(r, k) ==
    [r.b EXCEPT !.receipts = Put(@, k, r.ret),
                !.header.bloom = @ \cup receipt_bloom(r.ret.logs),
                !.transaction_count = @ + 1]

add_transaction_to_list(b, tx) ==
    add_receipt(mk_transaction_receipt(
                    [b EXCEPT !.objs[b.transactions] = Put(@, b.transaction_count, tx)],
                    tx),
                b.transaction_count)

\* Block.get_transaction
get_transaction(b, num) ==
    LET t == b.objs[b.transactions]
    IN IF num \in DOMAIN t THEN [ret |-> <<t[num]>>, exc |-> ""]
       ELSE [ret |-> <<>>, exc |-> "IndexError"]

\* Block.snapshot: journal, logs, suicides and txs are references
snapshot(b) ==
    [state |-> root_hash(b.state),
     gas |-> b.header.gas_used,
     txs |-> b.transactions,
     txcount |-> b.transaction_count,
     suicides |-> b.suicides,
     logs |-> b.logs,
     refunds |-> b.refunds,
     suicides_size |-> Len(b.objs[b.suicides]),
     logs_size |-> Len(b.objs[b.logs]),
     journal |-> b.journal,
     journal_size |-> Len(b.objs[b.journal]),
     ether_delta |-> b.ether_delta]

\* the journal loop with entries whose previous value is None left in the
\* cache instead of deleted
RECURSIVE revert_journal_nodel(_, _)
revert_journal_nodel(b, size) ==
    LET jl == b.objs[b.journal]
    IN IF Len(jl) <= size THEN [b |-> b, exc |-> ""]
       ELSE LET e == jl[Len(jl)]
                b1 == [b EXCEPT !.objs[b.journal] = SubSeq(jl, 1, Len(jl) - 1)]
            IN IF ~CacheHas(b1.caches, e.cache, e.ns)
               THEN [b |-> b1, exc |-> "KeyError"]
               ELSE LET d == CacheDict(b1.caches, e.cache, e.ns)
                    IN IF e.prev # <<>>
                       THEN revert_journal_nodel(
                              [b1 EXCEPT !.caches = CacheWith(@, e.cache, e.ns,
                                                     Put(d, e.index, e.prev[1]))],
                              size)
                       ELSE revert_journal_nodel(b1, size)

\* the journal loop undoing the entries beyond size oldest first
RECURSIVE revert_journal_fifo(_, _)
revert_journal_fifo(b, size) ==
    LET jl == b.objs[b.journal]
    IN IF Len(jl) <= size THEN [b |-> b, exc |-> ""]
       ELSE LET e == jl[size + 1]
                b1 == [b EXCEPT !.objs[b.journal] =
                          SubSeq(jl, 1, size) \o SubSeq(jl, size + 2, Len(jl))]
            IN IF ~CacheHas(b1.caches, e.cache, e.ns)
               THEN [b |-> b1, exc |-> "KeyError"]
               ELSE LET d == CacheDict(b1.caches, e.cache, e.ns)
                    IN IF e.prev # <<>>
                       THEN revert_journal_fifo(
                              [b1 EXCEPT !.caches = CacheWith(@, e.cache, e.ns,
                                                     Put(d, e.index, e.prev[1]))],
                              size)
                       ELSE IF e.index \notin DOMAIN d
                       THEN [b |-> b1, exc |-> "KeyError"]
                       ELSE revert_journal_fifo(
                              [b1 EXCEPT !.caches = CacheWith(@, e.cache, e.ns,
                                                     Del(d, e.index))],
                              size)

\* the journal loop of Block.revert; a missing cache or key raises KeyError
RECURSIVE revert_journal(_, _)
revert_journal(b, size) ==
    LET jl == b.objs[b.journal]
    IN IF Len(jl) <= size THEN [b |-> b, exc |-> ""]
       ELSE LET e == jl[Len(jl)]
                b1 == [b EXCEPT !.objs[b.journal] = SubSeq(jl, 1, Len(jl) - 1)]
            IN IF ~CacheHas(b1.caches, e.cache, e.ns)
               THEN [b |-> b1, exc |-> "KeyError"]
               ELSE LET d == CacheDict(b1.caches, e.cache, e.ns)
                    IN IF e.prev # <<>>
                       THEN revert_journal(
                              [b1 EXCEPT !.caches = CacheWith(@, e.cache, e.ns,
                                                     Put(d, e.index, e.prev[1]))],
                              size)
                       ELSE IF e.index \notin DOMAIN d
                       THEN [b |-> b1, exc |-> "KeyError"]
                       ELSE revert_journal(
                              [b1 EXCEPT !.caches = CacheWith(@, e.cache, e.ns,
                                                     Del(d, e.index))],
                              size)

\* while len(l) > size: l.pop()
pop_to(l, size) == IF Len(l) > size THEN SubSeq(l, 1, size) ELSE l

\* Block.revert
revert(b, mysnapshot) ==
    LET r == revert_journal([b EXCEPT !.journal = mysnapshot.journal],
                            mysnapshot.journal_size)
    IN IF r.exc # "" THEN r
       ELSE [b |-> [r.b EXCEPT
                      !.suicides = mysnapshot.suicides,
                      !.objs[mysnapshot.suicides] = pop_to(@, mysnapshot.suicides_size),
                      !.logs = mysnapshot.logs,
                      !.objs[mysnapshot.logs] = pop_to(@, mysnapshot.logs_size),
                      !.refunds = mysnapshot.refunds,
                      !.state = TrieAt(mysnapshot.state),
                      !.header.gas_used = mysnapshot.gas,
                      !.transactions = mysnapshot.txs,
                      !.transaction_count = mysnapshot.txcount,
                      !.ether_delta = mysnapshot.ether_delta],
             exc |-> ""]

\* ---------------------------------------------------------------- headers
\* GENESIS_PREVHASH: 32 zero bytes; any other hash is <<the hashed header>>
GENESIS_PREVHASH == <<>>
\* GENESIS_COINBASE: 20 zero bytes
GENESIS_COINBASE == 0
GENESIS_DIFFICULTY == 131072
GENESIS_GAS_LIMIT == 3141592
\* byte strings of which the code reads the length: the length and the
\* big-endian integer value
Bytes(n, v) == [len |-> n, val |-> v]
\* zpad(encode_int(42), 8)
GENESIS_NONCE == Bytes(8, 42)
\* the empty byte string ''
EMPTY_STRING == Bytes(0, 0)
\* 32 zero bytes
GENESIS_MIXHASH == Bytes(32, 0)

\* BlockHeader.__init__ with its default arguments; header.block is unset.
\* extra_data, mixhash are kept by what the code reads of them.
DefaultHeader ==
    [prevhash |-> GENESIS_PREVHASH,
     uncles_hash |-> <<>>,
     coinbase |-> GENESIS_COINBASE,
     state_root |-> BLANK_ROOT,
     tx_list_root |-> BLANK_ROOT,
     receipts_root |-> BLANK_ROOT,
     bloom |-> {},
     difficulty |-> GENESIS_DIFFICULTY,
     number |-> 0,
     gas_limit |-> GENESIS_GAS_LIMIT,
     gas_used |-> 0,
     timestamp |-> 0,
     extra_data |-> 0,
     mixhash |-> GENESIS_MIXHASH,
     nonce |-> EMPTY_STRING,
     block |-> FALSE]

\* Block.__init__, the fields set before the parent checks.  The journal
\* list, the suicides list, the logs list and the transaction trie are
\* objects 1 to 4; db holds the roots of the state tries written to the
\* database.
new_block(header, uncles, db) ==
    [header |-> header,
     db |-> db,
     uncles |-> uncles,
     suicides |-> 2,
     logs |-> 3,
     refunds |-> 0,
     ether_delta |-> 0,
     caches |-> EmptyCaches,
     journal |-> 1,
     transactions |-> 4,
     receipts |-> EmptyDict,
     transaction_count |-> 0,
     state |-> EmptyDict,
     objs |-> <<(<<>>), (<<>>), (<<>>), EmptyDict>>]

\* ------------------------------------------------------------ consensus
MIN_GAS_LIMIT == 125000
GASLIMIT_EMA_FACTOR == 1024
GASLIMIT_ADJMAX_FACTOR == 1024
BLKLIM_FACTOR_NOM == 3
BLKLIM_FACTOR_DEN == 2
\* utils.denoms.finney; amounts are counted in units of 10^12 wei, which
\* divide every reward exactly
finney == 1000
BLOCK_REWARD == 1500 * finney
UNCLE_DEPTH_PENALTY_FACTOR == 8
NEPHEW_REWARD == BLOCK_REWARD \div 32
DIFF_ADJUSTMENT_CUTOFF == 8
BLOCK_DIFF_FACTOR == 2048
MIN_DIFF == 131072

max(a, b) == IF a >= b THEN a ELSE b
min(a, b) == IF a <= b THEN a ELSE b
abs(a) == IF a >= 0 THEN a ELSE 0 - a

\* calc_difficulty without the lower bound min(parent.difficulty, MIN_DIFF)
calc_difficulty_nofloor(parent, timestamp) ==
    LET offset == parent.difficulty \div BLOCK_DIFF_FACTOR
        sign == IF timestamp - parent.timestamp < DIFF_ADJUSTMENT_CUTOFF
                THEN 1 ELSE 0 - 1
    IN parent.difficulty + offset * sign

calc_difficulty(parent, timestamp) ==
    LET offset == parent.difficulty \div BLOCK_DIFF_FACTOR
        sign == IF timestamp - parent.timestamp < DIFF_ADJUSTMENT_CUTOFF
                THEN 1 ELSE 0 - 1
    IN max(parent.difficulty + offset * sign, min(parent.difficulty, MIN_DIFF))

\* check_gaslimit without the lower bound MIN_GAS_LIMIT
check_gaslimit_nomin(parent, gas_limit) ==
    abs(gas_limit - parent.gas_limit) <= parent.gas_limit \div GASLIMIT_EMA_FACTOR

check_gaslimit(parent, gas_limit) ==
    LET a == abs(gas_limit - parent.gas_limit)
                 <= parent.gas_limit \div GASLIMIT_EMA_FACTOR
        b == gas_limit >= MIN_GAS_LIMIT
    IN a /\ b

\* calc_gaslimit, its locals decay, new_contribution and the first gl
decay(parent) == parent.gas_limit \div GASLIMIT_EMA_FACTOR

new_contribution(parent) ==
    ((parent.gas_used * BLKLIM_FACTOR_NOM) \div BLKLIM_FACTOR_DEN)
        \div GASLIMIT_EMA_FACTOR

first_gl(parent) ==
    max(parent.gas_limit - decay(parent) + new_contribution(parent), MIN_GAS_LIMIT)

\* calc_gaslimit without the case gl < GENESIS_GAS_LIMIT
calc_gaslimit_nogenesis(parent) == first_gl(parent)

\* calc_gaslimit going to GENESIS_GAS_LIMIT in one step when the first gl is
\* below it
calc_gaslimit_onestep(parent) ==
    IF first_gl(parent) < GENESIS_GAS_LIMIT THEN GENESIS_GAS_LIMIT
    ELSE first_gl(parent)

\* calc_gaslimit, the value it returns when its assertion holds
calc_gaslimit(parent) ==
    IF first_gl(parent) < GENESIS_GAS_LIMIT
    THEN min(GENESIS_GAS_LIMIT, parent.gas_limit + decay(parent))
    ELSE first_gl(parent)

\* sha3(rlp.encode(header)) of a header whose roots are the stored ones: the
\* hash is the hashed fields
header_hash(h) == <<[h EXCEPT !.block = FALSE]>>

\* transactions: the sender, the recipient, the value and the gas the
\* executor charges, and the logs it emits
Tx1 == [sender |-> 1, to |-> 2, value |-> 1, gas |-> 1, logs |-> <<>>]
Tx2 == [sender |-> 1, to |-> 2, value |-> 2, gas |-> 2, logs |-> <<5>>]

\* Block.finalize: the rewards, then commit_state.  BLOCK_REWARD is a multiple
\* of 32 and of 8: int(... / ...) is the same integer when / is the floor
\* division (Python 2) and when it is the true division (Python 3).
RECURSIVE pay_uncles(_, _)
pay_uncles(b, uncles) ==
    IF uncles = <<>> THEN b
    ELSE LET uncle == Head(uncles)
             r == (BLOCK_REWARD
                     * (UNCLE_DEPTH_PENALTY_FACTOR + uncle.number - b.header.number))
                  \div UNCLE_DEPTH_PENALTY_FACTOR
             b1 == delta_balance(b, uncle.coinbase, r).b
         IN pay_uncles([b1 EXCEPT !.ether_delta = @ + r], Tail(uncles))

finalize(b) ==
    LET delta == BLOCK_REWARD + NEPHEW_REWARD * Len(b.uncles)
        b1 == delta_balance(b, b.header.coinbase, delta).b
    IN commit_state(pay_uncles([b1 EXCEPT !.ether_delta = @ + delta], b.uncles))

\* processblock.apply_transaction, the executor: it works on the block through
\* the cache operations, charges gas, appends the logs, commits and appends
\* the transaction with its receipt.  A transaction whose sender cannot pay
\* the gas is invalid: the executor raises.
RECURSIVE add_logs(_, _)
add_logs(b, logs) ==
    IF logs = <<>> THEN b ELSE add_logs(add_log(b, Head(logs)), Tail(logs))

\* the end of a transaction: the gas is counted, the state committed, the
\* transaction and its receipt appended, and the logs emptied
transaction_done(b, tx) ==
    LET b5 == add_transaction_to_list(
                  commit_state([b EXCEPT !.header.gas_used = @ + tx.gas]), tx)
    IN [b |-> [b5 EXCEPT !.objs[b.logs] = <<>>], exc |-> ""]

\* the transfer succeeded: the logs are appended; it failed: the snapshot
\* taken before it is reverted to
transfer_done(r, s, tx) ==
    transaction_done(IF r.ret THEN add_logs(r.b, tx.logs) ELSE revert(r.b, s).b, tx)

\* the message of a transaction, on the block with the nonce and the gas paid
apply_msg(b, tx) ==
    transfer_done(transfer_value(b, tx.sender, tx.to, tx.value), snapshot(b), tx)

apply_transaction(b, tx) ==
    IF get_acct_item(b, tx.sender, "balance").ret < tx.gas
    THEN [b |-> b, exc |-> "InvalidTransaction"]
    ELSE apply_msg(delta_item(delta_item(b, tx.sender, "nonce", 1).b,
                              tx.sender, "balance", 0 - tx.gas).b, tx)

\* ------------------------------------------------------------ construction
\* The database: the stored blocks by their key, the hashes that have a
\* b'validated:' key, and the roots of the state tries whose nodes are stored.

\* (x * n) // d of non-negative integers, without the intermediate product
muldiv(x, n, d) == (x \div d) * n + ((x % d) * n) \div d

\* ethash, hashimoto_light: the mix digest and the result of a nonce; the low
\* bits of the nonce decide how far the result is from the target
hashimoto_light(mining, nonce) ==
    [mix_digest |-> Bytes(32, nonce.val),
     result |-> (nonce.val % 4) * (TT256 \div MIN_DIFF) + nonce.val \div 8]

\* BlockHeader.mining_hash
mining_hash(h) ==
    <<[h EXCEPT !.block = FALSE, !.mixhash = EMPTY_STRING, !.nonce = EMPTY_STRING]>>

\* The interpreter that runs the module: the source supports Python 2 and
\* Python 3 (sys.version_info.major), and int / int is the floor division
\* in the one and the true division, a float, in the other.
VARIABLE python

Pythons == {2, 3}

RECURSIVE bit_length(_)
bit_length(n) == IF n = 0 THEN 0 ELSE 1 + bit_length(n \div 2)

\* a / b rounded to the nearest integer, ties to even
round_div(a, b) ==
    IF 2 * (a % b) > b \/ (2 * (a % b) = b /\ (a \div b) % 2 = 1)
    THEN a \div b + 1 ELSE a \div b

\* the least power of two s with a * s >= b * 2^(FloatBits - 1)
RECURSIVE up_scale(_, _, _)
up_scale(a, b, s) ==
    IF a * s >= b * 2 ^ (FloatBits - 1) THEN s ELSE up_scale(a, b, 2 * s)

\* the true division of two positive ints a / b: the quotient correctly
\* rounded to FloatBits significant bits.  Given by its integer part, which
\* decides every comparison int <= float.
true_div_floor(a, b) ==
    IF a \div b >= 2 ^ (FloatBits - 1)
    THEN round_div(a, b * 2 ^ (bit_length(a \div b) - FloatBits))
           * 2 ^ (bit_length(a \div b) - FloatBits)
    ELSE round_div(a * up_scale(a, b, 1), b) \div up_scale(a, b, 1)

\* a / b of two positive ints, as far as a comparison with an int sees it
py_div(a, b) == IF python = 2 THEN a \div b ELSE true_div_floor(a, b)

\* BlockHeader.check_pow, the verdict on the output of hashimoto_light
pow_verdict(h, out) ==
    /\ out.mix_digest = h.mixhash
    /\ out.result <= py_div(TT256, IF h.difficulty = 0 THEN 1 ELSE h.difficulty)

\* BlockHeader.check_pow; nonce is <<>> for None
check_pow(h, nonce) ==
    IF h.mixhash.len # 32 \/ h.nonce.len # 8
    THEN [ret |-> FALSE, exc |-> "ValueError: Bad mixhash or nonce length"]
    ELSE [ret |-> pow_verdict(h, hashimoto_light(mining_hash(h),
                                  IF nonce = <<>> \/ nonce[1].len = 0
                                  THEN h.nonce ELSE nonce[1])),
          exc |-> ""]

\* BlockHeader.hash: self._fimxe_hash or utils.sha3(rlp.encode(self));
\* fimxe_hash is <<>> for None and <<the hash>> once set (a hash of 32 bytes
\* is never falsy)
hash_property(bh, fimxe_hash) ==
    IF fimxe_hash # <<>> THEN fimxe_hash[1] ELSE header_hash(bh)

\* get_block_header returning the header as it was read
get_block_header_asread(db, blockhash) ==
    [header |-> db.blocks[blockhash].header,
     hash |-> hash_property(db.blocks[blockhash].header, <<>>)]

\* get_block_header: the header stored under blockhash, with _fimxe_hash set
\* when its own hash is another one; hash is what its hash property returns
get_block_header(db, blockhash) ==
    LET bh == db.blocks[blockhash].header
    IN [header |-> bh,
        hash |-> hash_property(bh, IF hash_property(bh, <<>>) # blockhash
                                   THEN <<blockhash>> ELSE <<>>)]

\* Block.get_parent_header
get_parent_header(b, db) ==
    IF b.header.number = 0 \/ b.header.prevhash \notin DOMAIN db.blocks
    THEN [ret |-> <<>>, exc |-> "UnknownParentException"]
    ELSE [ret |-> <<get_block_header(db, b.header.prevhash)>>, exc |-> ""]

\* Block.hash: the header's hash, its roots read from the block once
\* header.block is set
block_hash(b) ==
    IF b.header.block
    THEN header_hash([b.header EXCEPT !.state_root = state_root(b).ret,
                                      !.tx_list_root = root_hash(b.objs[b.transactions]),
                                      !.receipts_root = root_hash(b.receipts)])
    ELSE header_hash(b.header)

\* BlockHeader.state_root read from the header as it was stored
header_state_root_stored(b) == [b |-> b, ret |-> b.header.state_root]

\* BlockHeader.state_root, tx_list_root and receipts_root (getters) of the
\* header of the block b: the block's own once header.block is set
header_state_root(b) ==
    IF b.header.block THEN state_root(b) ELSE [b |-> b, ret |-> b.header.state_root]

header_tx_list_root(b) ==
    IF b.header.block THEN root_hash(b.objs[b.transactions])
    ELSE b.header.tx_list_root

header_receipts_root(b) ==
    IF b.header.block THEN root_hash(b.receipts) ELSE b.header.receipts_root

\* Block.__init__, the consistency checks on a parent that is given
parent_checks(header, parent) ==
    IF parent = <<>> THEN ""
    ELSE LET p == parent[1].header
         IN IF header.prevhash # header_hash(p)
            THEN "ValueError: prevhash"
            ELSE IF header.number # p.number + 1
            THEN "ValueError: number"
            ELSE IF ~check_gaslimit(p, header.gas_limit)
            THEN "ValueError: gaslimit"
            ELSE IF header.difficulty # calc_difficulty(p, header.timestamp)
            THEN "ValueError: difficulty"
            ELSE ""

\* state_unknown without the lookup of the validated key
state_unknown_nosentinel(header, db, making) ==
    /\ header.prevhash # GENESIS_PREVHASH
    /\ header.state_root # BLANK_ROOT
    /\ ~making

\* Block.__init__, state_unknown
state_unknown(header, db, making) ==
    /\ header.prevhash # GENESIS_PREVHASH
    /\ header.state_root # BLANK_ROOT
    /\ (header.state_root.len # 32 \/ header_hash(header) \notin db.validated)
    /\ ~making

\* the replay loop: the executor's calls in order, stopped by an exception
RECURSIVE replay_transactions(_, _, _)
replay_next(r, txs, calls) ==
    IF r.exc # "" THEN [b |-> r.b, exc |-> r.exc, calls |-> calls]
    ELSE replay_transactions(r.b, txs, calls)

replay_transactions(b, txs, calls) ==
    IF txs = <<>> THEN [b |-> b, exc |-> "", calls |-> calls]
    ELSE replay_next(apply_transaction(b, Head(txs)), Tail(txs),
                     Append(calls, <<"apply_transaction", Head(txs)>>))

\* Block.__init__, the end of the replay path: finalize, unless the executor
\* raised
replay_done(r, parent) ==
    IF r.exc # ""
    THEN [b |-> r.b, exc |-> r.exc, calls |-> r.calls, parent |-> parent]
    ELSE [b |-> finalize(r.b), exc |-> "",
          calls |-> Append(r.calls, <<"finalize">>), parent |-> parent]

\* Block.__init__, the replay on the state at the parent's state root
replay_on(b0, txs, parent) ==
    replay_done(
        replay_transactions([b0 EXCEPT !.state = TrieAt(parent[1].header.state_root),
                                       !.transaction_count = 0,
                                       !.header.gas_used = 0], txs, <<>>),
        parent)

\* Block.__init__, the replay with the parent that get_parent_header returned
replay_loaded(b0, txs, loaded) ==
    IF loaded.exc # ""
    THEN [b |-> b0, exc |-> loaded.exc, calls |-> <<>>, parent |-> <<>>]
    ELSE replay_on(b0, txs, loaded.ret)

\* Block.__init__, the replay path; transaction_list is <<>> for None
replay_path(b0, transaction_list, parent, db) ==
    IF transaction_list = <<>>
    THEN [b |-> b0, exc |-> "AssertionError", calls |-> <<>>, parent |-> parent]
    ELSE replay_loaded(b0, transaction_list[1],
                       IF parent # <<>> THEN [ret |-> parent, exc |-> ""]
                       ELSE get_parent_header(b0, db))

RECURSIVE add_transactions(_, _)
add_transactions(b, txs) ==
    IF txs = <<>> THEN b
    ELSE add_transactions(add_transaction_to_list(b, Head(txs)), Tail(txs))

\* Block.__init__, the trust path: the state at the header's root and the
\* transactions added to the list
trust_state(b0, transaction_list) ==
    IF transaction_list = <<>>
    THEN [b0 EXCEPT !.state = TrieAt(b0.header.state_root), !.transaction_count = 0]
    ELSE add_transactions([b0 EXCEPT !.state = TrieAt(b0.header.state_root),
                                     !.transaction_count = 0],
                          transaction_list[1])

\* the end of the trust path without its comparison of the transaction root
trust_compare_none(b2, parent) ==
    [b |-> [b2 EXCEPT !.receipts = TrieAt(b2.header.receipts_root)], exc |-> "",
     calls |-> <<>>, parent |-> parent]

\* the end of the trust path with the receipts trie that
\* add_transaction_to_list filled kept
trust_compare_kept(b2, parent) ==
    IF root_hash(b2.objs[b2.transactions]) # b2.header.tx_list_root
    THEN [b |-> b2, exc |-> "ValueError: Transaction list root hash does not match",
          calls |-> <<>>, parent |-> parent]
    ELSE [b |-> b2, exc |-> "", calls |-> <<>>, parent |-> parent]

\* Block.__init__, the end of the trust path: the comparison of the
\* transaction root, then the receipts trie at the header's root
trust_compare(b2, parent) ==
    IF root_hash(b2.objs[b2.transactions]) # b2.header.tx_list_root
    THEN [b |-> b2, exc |-> "ValueError: Transaction list root hash does not match",
          calls |-> <<>>, parent |-> parent]
    ELSE [b |-> [b2 EXCEPT !.receipts = TrieAt(b2.header.receipts_root)], exc |-> "",
          calls |-> <<>>, parent |-> parent]

\* Block.__init__, the trust path
trust_path(b0, transaction_list, parent) ==
    trust_compare(trust_state(b0, transaction_list), parent)

\* the checks of the roots without the one of the receipts root
root_checks_noreceipts(b, original_values) ==
    IF root_hash(b.state) # b.header.state_root
    THEN "VerificationFailed: state_root"
    ELSE IF root_hash(b.objs[b.transactions]) # b.header.tx_list_root
    THEN "VerificationFailed: tx_list_root"
    ELSE IF b.header.bloom # original_values.bloom
    THEN "VerificationFailed: bloom"
    ELSE ""

\* Block.__init__, must_equal on the three roots and the bloom: the first
\* check that fails
root_checks(b, original_values) ==
    IF root_hash(b.state) # b.header.state_root
    THEN "VerificationFailed: state_root"
    ELSE IF root_hash(b.objs[b.transactions]) # b.header.tx_list_root
    THEN "VerificationFailed: tx_list_root"
    ELSE IF root_hash(b.receipts) # b.header.receipts_root
    THEN "VerificationFailed: receipts_root"
    ELSE IF b.header.bloom # original_values.bloom
    THEN "VerificationFailed: bloom"
    ELSE ""

\* Block.__init__, the checks of the block against the header as received
\* (must, must_equal, must_ge, must_le): the first check that fails
header_checks(b, original_values, uncles, parent) ==
    LET failed(what) == "VerificationFailed: " \o what
        gas_limit == b.header.gas_limit
    IN IF parent # <<>> /\ b.header.prevhash # parent[1].hash
       THEN failed("prev_hash")
       ELSE IF /\ parent # <<>>
               /\ ~(gas_limit >= muldiv(parent[1].header.gas_limit,
                                        GASLIMIT_ADJMAX_FACTOR - 1, GASLIMIT_ADJMAX_FACTOR))
       THEN failed("gas_limit")
       ELSE IF /\ parent # <<>>
               /\ ~(gas_limit <= muldiv(parent[1].header.gas_limit,
                                        GASLIMIT_ADJMAX_FACTOR + 1, GASLIMIT_ADJMAX_FACTOR))
       THEN failed("gas_limit")
       ELSE IF original_values.gas_used # b.header.gas_used
       THEN failed("gas_used")
       ELSE IF b.header.timestamp # original_values.timestamp
       THEN failed("timestamp")
       ELSE IF b.header.difficulty # original_values.difficulty
       THEN failed("difficulty")
       ELSE IF uncles # original_values.uncles_hash
       THEN failed("uncles_hash")
       ELSE root_checks(b, original_values)

\* Block.check_fields: the block serializes and reads back unchanged, which
\* it does when every field has a length its serializer accepts
check_fields(b) ==
    /\ b.header.nonce.len \in {0, 8}
    /\ b.header.number >= 0 /\ b.header.gas_limit >= 0 /\ b.header.gas_used >= 0
    /\ b.header.timestamp >= 0 /\ b.header.difficulty >= 0

\* the empty address ''
EMPTY_ADDRESS == 0 - 1

\* Trie.root_hash_valid of the state trie
root_hash_valid(b) ==
    root_hash(b.state) = BLANK_ROOT \/ root_hash(b.state) \in b.db

\* Block.is_genesis
is_genesis(b) ==
    b.header.prevhash = GENESIS_PREVHASH /\ b.header.nonce = GENESIS_NONCE

\* the basic consistency verifications without the one of the proof of work
basic_checks_nopow(b) ==
    IF ~check_fields(b) THEN "ValueError: Block is invalid"
    ELSE IF b.header.extra_data > 1024
    THEN "ValueError: Extra data cannot exceed 1024 bytes"
    ELSE IF b.header.coinbase = EMPTY_ADDRESS
    THEN "ValueError: Coinbase cannot be empty address"
    ELSE IF ~root_hash_valid(b)
    THEN "ValueError: State Merkle root not found in database"
    ELSE ""

\* Block.__init__, the basic consistency verifications: the first that fails
basic_checks(b) ==
    LET pow == check_pow(b.header, <<>>)
    IN IF ~check_fields(b) THEN "ValueError: Block is invalid"
       ELSE IF b.header.extra_data > 1024
       THEN "ValueError: Extra data cannot exceed 1024 bytes"
       ELSE IF b.header.coinbase = EMPTY_ADDRESS
       THEN "ValueError: Coinbase cannot be empty address"
       ELSE IF ~root_hash_valid(b)
       THEN "ValueError: State Merkle root not found in database"
       ELSE IF ~is_genesis(b) /\ b.header.nonce.len # 0 /\ pow.exc # ""
       THEN pow.exc
       ELSE IF ~is_genesis(b) /\ b.header.nonce.len # 0 /\ ~pow.ret
       THEN "ValueError: PoW check failed"
       ELSE ""

\* the sentinel written although the construction raised
put_validated_always(db, b, exc) ==
    [db EXCEPT !.validated = @ \cup {block_hash(b)}]

\* Block.__init__, its last statement, which an exception raised before it
\* does not reach
put_validated(db, b, exc) ==
    IF exc # "" THEN db
    ELSE [db EXCEPT !.validated = @ \cup {block_hash(b)}]

\* Block.__init__, the path taken
take_path(b0, transaction_list, parent, db, unknown) ==
    IF unknown THEN replay_path(b0, transaction_list, parent, db)
    ELSE trust_path(b0, transaction_list, parent)

\* Block.__init__, the must checks, unless the path raised
must_checked(body, original_values, uncles) ==
    IF body.exc # "" THEN body
    ELSE [body EXCEPT !.calls = Append(@, <<"checks">>),
                      !.exc = header_checks(body.b, original_values, uncles,
                                            body.parent)]

\* Block.__init__, from header.block = self to the basic consistency
\* verifications, unless a check before them raised
basic_checked(body) ==
    IF body.exc # "" THEN body
    ELSE [body EXCEPT !.b = [@ EXCEPT !.header.block = TRUE],
                      !.exc = basic_checks([body.b EXCEPT !.header.block = TRUE])]

\* Block.__init__, its last statement, and what a construction is known by:
\* the block, the exception raised ("" for none), the path taken, the calls
\* made to the executor and to finalize in their order, and the database
\* afterwards
constructed(body, path, db) ==
    [b |-> body.b, exc |-> body.exc, path |-> path, calls |-> body.calls,
     parent |-> body.parent,
     db |-> put_validated([db EXCEPT !.nodes = body.b.db], body.b, body.exc)]

\* Block.__init__; transaction_list and parent are <<>> for None
Block_init(header, transaction_list, uncles, db, parent, making) ==
    IF parent_checks(header, parent) # ""
    THEN constructed([b |-> new_block(header, uncles, db.nodes),
                      exc |-> parent_checks(header, parent),
                      calls |-> <<>>, parent |-> parent], "", db)
    ELSE constructed(
             basic_checked(must_checked(
                 take_path(new_block(header, uncles, db.nodes), transaction_list,
                           parent, db, state_unknown(header, db, making)),
                 [gas_used |-> header.gas_used,
                  timestamp |-> header.timestamp,
                  difficulty |-> header.difficulty,
                  uncles_hash |-> header.uncles_hash,
                  bloom |-> header.bloom],
                 uncles)),
             IF state_unknown(header, db, making) THEN "replay" ELSE "trust", db)

\* the header of a block with its roots read from the block
live_header(b) ==
    [b.header EXCEPT !.state_root = state_root(b).ret,
                     !.tx_list_root = root_hash(b.objs[b.transactions]),
                     !.receipts_root = root_hash(b.receipts),
                     !.block = FALSE]

\* Block.init_from_parent; parent is a block: its header and its hash.
\* calc_gaslimit ends with assert check_gaslimit(parent, gl), which raises
\* before the header is built.
init_from_parent(parent, coinbase, nonce, extra_data, timestamp, uncles, db) ==
    LET header == [prevhash |-> parent.hash,
                   uncles_hash |-> uncles,
                   coinbase |-> coinbase,
                   state_root |-> parent.header.state_root,
                   tx_list_root |-> BLANK_ROOT,
                   receipts_root |-> BLANK_ROOT,
                   bloom |-> {},
                   difficulty |-> calc_difficulty(parent.header, timestamp),
                   number |-> parent.header.number + 1,
                   gas_limit |-> calc_gaslimit(parent.header),
                   gas_used |-> 0,
                   timestamp |-> timestamp,
                   extra_data |-> extra_data,
                   mixhash |-> EMPTY_STRING,
                   nonce |-> nonce,
                   block |-> FALSE]
    IN IF ~check_gaslimit(parent.header, calc_gaslimit(parent.header))
       THEN constructed([b |-> new_block(header, uncles, db.nodes),
                         exc |-> "AssertionError", calls |-> <<>>,
                         parent |-> <<parent>>], "", db)
       ELSE Block_init(header, <<(<<>>)>>, uncles, db, <<parent>>, TRUE)

\* Block.set_balance
set_balance(b, address, value) == set_acct_item(b, address, "balance", value)

\* the data of an account in start_alloc: 'wei', 'balance', 'code' and 'nonce'
\* are <<>> when the key is missing, 'storage' is a dict (empty when missing)
NoData ==
    [wei |-> <<>>, balance |-> <<>>, code |-> <<>>, nonce |-> <<>>,
     storage |-> EmptyDict]

\* genesis, one 'if key in data' of the allocation loop
alloc_item(b, addr, param, value) ==
    IF value = <<>> THEN b ELSE set_acct_item(b, addr, param, value[1])

RECURSIVE alloc_storage(_, _, _, _)
alloc_storage(b, addr, storage, ks) ==
    IF ks = <<>> THEN b
    ELSE alloc_storage(set_storage_data(b, addr, Head(ks), storage[Head(ks)]),
                       addr, storage, Tail(ks))

\* genesis, the body of the allocation loop for one address
alloc_account(b, addr, data) ==
    alloc_storage(
        alloc_item(alloc_item(alloc_item(alloc_item(b, addr, "balance", data.wei),
                                         addr, "balance", data.balance),
                              addr, "code", data.code),
                   addr, "nonce", data.nonce),
        addr, data.storage, sorted(DOMAIN data.storage))

RECURSIVE alloc_accounts(_, _, _)
alloc_accounts(b, start_alloc, addrs) ==
    IF addrs = <<>> THEN b
    ELSE alloc_accounts(alloc_account(b, Head(addrs), start_alloc[Head(addrs)]),
                        start_alloc, Tail(addrs))

\* genesis: the block and the database afterwards
genesis_committed(b, db) == [b |-> b, db |-> [db EXCEPT !.nodes = b.db]]

\* genesis without the commit of the allocation
genesis_uncommitted(r, start_alloc) ==
    genesis_committed(alloc_accounts(r.b, start_alloc, sorted(DOMAIN start_alloc)),
                      r.db)

genesis_alloc(r, start_alloc) ==
    genesis_committed(
        commit_state(alloc_accounts(r.b, start_alloc, sorted(DOMAIN start_alloc))),
        r.db)

\* genesis, the header it builds
genesis_header(difficulty) ==
    [DefaultHeader EXCEPT !.difficulty = difficulty, !.nonce = GENESIS_NONCE]

genesis(db, start_alloc, difficulty) ==
    genesis_alloc(Block_init(genesis_header(difficulty), <<(<<>>)>>, <<>>, db, <<>>,
                             FALSE),
                  start_alloc)

\* ------------------------------------------------------------ callers
\* The chain importer stores an accepted block under its hash.
store(db, b, txs) ==
    [db EXCEPT !.blocks = Put(@, block_hash(b),
                              [header |-> live_header(b),
                               transaction_list |-> txs,
                               uncles |-> b.uncles])]

\* get_block: the stored block as a parent argument
stored_block(db, blockhash) ==
    [header |-> db.blocks[blockhash].header, hash |-> blockhash]

\* difficulty holds the values stored under b'difficulty:' + hex(hash)
EmptyDB ==
    [blocks |-> EmptyDict, validated |-> {}, nodes |-> {}, difficulty |-> EmptyDict]
\* the allocation of the genesis block: one funded account
GenesisAlloc == [a \in {1} |-> [NoData EXCEPT !.wei = <<10>>]]
\* the database after genesis() and the import of the genesis block
imported(g) == store(g.db, g.b, <<>>)
GenesisDB == imported(genesis(EmptyDB, GenesisAlloc, GENESIS_DIFFICULTY))

\* the coinbase of the blocks mined
Miner == 3
Tx3 == [sender |-> 1, to |-> 2, value |-> 3, gas |-> 1, logs |-> <<>>]
Uncle == [DefaultHeader EXCEPT !.coinbase = 2, !.timestamp = 1]
\* the nonces a miner may find: one far below the target, one on the target
\* of the minimal difficulty, one above every target
GoodNonce == Bytes(8, 4)
EdgeNonce == Bytes(8, 5)
BadNonce == Bytes(8, 6)
\* what a block carries: its transactions and its uncles
Scenarios ==
    {[txs |-> <<>>, uncles |-> <<>>],
     [txs |-> <<Tx1, Tx2>>, uncles |-> <<Uncle>>]}

\* A miner builds a block on parent: init_from_parent, the transactions, then
\* finalize, then the nonce.  The result is the header sent on the wire.
seal(h, nonce) ==
    [h EXCEPT !.nonce = nonce,
              !.mixhash = hashimoto_light(mining_hash(h), nonce).mix_digest]

mine(db, parent, coinbase, timestamp, txs, uncles, nonce) ==
    seal(live_header(finalize(replay_transactions(
             init_from_parent(parent, coinbase, EMPTY_STRING, 0, timestamp,
                              uncles, db).b,
             txs, <<>>).b)),
         nonce)

\* the headers received for a mined header h: h itself and h with one field
\* changed
HeaderFaults(h, parent) ==
    {<<"none", h>>,
     <<"state_root blank", [h EXCEPT !.state_root = BLANK_ROOT]>>,
     <<"state_root parent", [h EXCEPT !.state_root = parent.header.state_root]>>,
     <<"state_root empty", [h EXCEPT !.state_root = EMPTY_BYTES]>>,
     <<"tx_list_root", [h EXCEPT !.tx_list_root = root_hash([i \in {0} |-> Tx3])]>>,
     <<"receipts_root", [h EXCEPT !.receipts_root =
          root_hash([i \in {0} |-> [state_root |-> BLANK_ROOT, gas_used |-> 0,
                                    logs |-> <<>>]])]>>,
     <<"bloom", [h EXCEPT !.bloom = @ \cup {9}]>>,
     <<"gas_used", [h EXCEPT !.gas_used = @ + 1]>>,
     <<"uncles_hash", [h EXCEPT !.uncles_hash = <<Uncle, Uncle>>]>>,
     <<"extra_data", [h EXCEPT !.extra_data = 1025]>>,
     <<"nonce empty", [h EXCEPT !.nonce = EMPTY_STRING]>>,
     <<"nonce bad", seal(h, BadNonce)>>,
     <<"nonce edge", seal(h, EdgeNonce)>>,
     <<"mixhash", [h EXCEPT !.mixhash = GENESIS_MIXHASH]>>,
     <<"mixhash short", [h EXCEPT !.mixhash = EMPTY_STRING]>>,
     <<"prevhash unknown", [h EXCEPT !.prevhash = <<Uncle>>]>>,
     <<"prevhash zero", [h EXCEPT !.prevhash = GENESIS_PREVHASH]>>}

\* the changes of a field that the checks against the parent are about
ParentFaults(h, parent) ==
    {<<"none", h>>,
     <<"number", [h EXCEPT !.number = @ + 1]>>,
     <<"number zero", [h EXCEPT !.number = 0]>>,
     <<"difficulty", [h EXCEPT !.difficulty = @ + 1]>>,
     <<"timestamp", [h EXCEPT !.timestamp = @ + DIFF_ADJUSTMENT_CUTOFF]>>,
     <<"gas_limit low", [h EXCEPT !.gas_limit =
          muldiv(parent.header.gas_limit, GASLIMIT_ADJMAX_FACTOR - 1, GASLIMIT_ADJMAX_FACTOR)]>>,
     <<"gas_limit lower", [h EXCEPT !.gas_limit =
          muldiv(parent.header.gas_limit, GASLIMIT_ADJMAX_FACTOR - 1, GASLIMIT_ADJMAX_FACTOR) - 1]>>,
     <<"gas_limit high", [h EXCEPT !.gas_limit =
          muldiv(parent.header.gas_limit, GASLIMIT_ADJMAX_FACTOR + 1, GASLIMIT_ADJMAX_FACTOR) + 1]>>}

\* the calls of the constructor for a block mined on parent: the header as
\* mined or with one field changed, the parent loaded or passed, and the
\* transactions as mined, missing, or with one substituted
Calls(db, parent, sc, h) ==
    LET call(fault, header, tl, par, making) ==
            [fault |-> fault, header |-> header, transaction_list |-> tl,
             uncles |-> sc.uncles, parent |-> par, making |-> making,
             mined |-> h, txs |-> sc.txs]
    IN {call(f[1], f[2], <<sc.txs>>, <<>>, FALSE) : f \in HeaderFaults(h, parent)}
       \cup {call(f[1], f[2], <<sc.txs>>, par, FALSE) :
               f \in ParentFaults(h, parent), par \in {<<>>, <<parent>>}}
       \cup {call("parent other", h, <<sc.txs>>, <<stored_block(db, k)>>, FALSE) :
               k \in DOMAIN db.blocks \ {parent.hash}}
       \cup {call("transaction_list None", h, <<>>, <<>>, FALSE),
             call("making", h, <<sc.txs>>, <<parent>>, TRUE)}
       \cup (IF sc.txs = <<>> THEN {}
             ELSE {call("transaction substituted", h,
                        <<[sc.txs EXCEPT ![1] = Tx3]>>, <<>>, FALSE)})

Inputs(db, parent, sc) ==
    Calls(db, parent, sc,
          mine(db, parent, Miner, parent.header.timestamp + 1, sc.txs, sc.uncles,
               GoodNonce))

\* ------------------------------------------------------------ ancestors
MAX_UNCLE_DEPTH == 6
MAX_UNCLES == 2
\* number of blocks of the stored chain, the genesis block included
ChainLen == 9

\* Python's None in a list of blocks.  A block object is named by its hash,
\* and the model's hash is the hashed header: h[1] is the header of block h.
None == <<>>

\* Block.__init__: self.ancestors of the genesis block
genesis_ancestors(self) == <<self>> \o [i \in 1..256 |-> None]

\* Block.__init__: self.ancestors of a block get_block has just decoded
fresh_ancestors(self) ==
    IF self[1].number > 0 THEN <<self>> ELSE genesis_ancestors(self)

\* get_block is an lru_cache: one Block object for each stored hash
cached_blocks(db) == [h \in DOMAIN db.blocks |-> fresh_ancestors(h)]

\* self.ancestors[:n + 1]
ancestors_prefix(s, n) == SubSeq(s, 1, min(n + 1, Len(s)))

raised(anc, exc) == [anc |-> anc, ret |-> <<>>, exc |-> exc]

\* Block.get_ancestor_list: self.ancestors += missing, and the slice returned
ancestors_extended(missing, self, n) ==
    IF missing.exc # "" THEN missing
    ELSE [anc |-> [missing.anc EXCEPT ![self] = @ \o missing.ret],
          ret |-> ancestors_prefix(missing.anc[self] \o missing.ret, n),
          exc |-> ""]

\* Block.get_ancestor_list on the block object self; anc holds self.ancestors
\* of every block object.  self.ancestors[-1].get_parent() is Block.get_parent
\* on a block, and an attribute error on None.
RECURSIVE get_ancestor_list(_, _, _, _)
get_ancestor_list(anc, db, self, n) ==
    IF self[1].number = 0
    THEN [anc |-> [anc EXCEPT ![self] = genesis_ancestors(self)],
          ret |-> ancestors_prefix(genesis_ancestors(self), n), exc |-> ""]
    ELSE IF Len(anc[self]) <= n
    THEN IF anc[self][Len(anc[self])] = None
         THEN raised(anc, "AttributeError")
         ELSE IF anc[self][Len(anc[self])][1].number = 0
                 \/ anc[self][Len(anc[self])][1].prevhash \notin DOMAIN db.blocks
         THEN raised(anc, "UnknownParentException")
         ELSE ancestors_extended(
                  get_ancestor_list(anc, db, anc[self][Len(anc[self])][1].prevhash,
                                    n - Len(anc[self])), self, n)
    ELSE [anc |-> anc, ret |-> ancestors_prefix(anc[self], n), exc |-> ""]

\* Block.get_ancestor: get_ancestor_list(n)[-1]
get_ancestor(anc, db, self, n) ==
    [get_ancestor_list(anc, db, self, n) EXCEPT !.ret = IF @ = <<>> THEN @ ELSE <<@[Len(@)]>>]

verdict(anc, v) == [anc |-> anc, ret |-> v.ret, exc |-> v.exc]
Refused == [ret |-> FALSE, exc |-> ""]

\* Block.validate_uncles, the first loop: the parent of every uncle is
\* asserted to be in the database, and no uncle has the block's number
RECURSIVE uncles_known(_, _, _)
uncles_known(db, b, us) ==
    IF us = <<>> THEN [ret |-> TRUE, exc |-> ""]
    ELSE IF Head(us).prevhash \notin DOMAIN db.blocks
    THEN [ret |-> FALSE, exc |-> "AssertionError"]
    ELSE IF Head(us).number = b.header.number THEN Refused
    ELSE uncles_known(db, b, Tail(us))

\* the headers of ancestor_chain and the uncles of ancestor_chain[1:], by hash
\* (BlockHeader.__eq__ compares the hashes)
ineligible_of(db, chain) ==
    {chain[i] : i \in 1..Len(chain)}
    \cup UNION {{header_hash(db.blocks[chain[i]].uncles[j]) :
                   j \in DOMAIN db.blocks[chain[i]].uncles} : i \in 2..Len(chain)}

\* [x.hash for x in ancestor_chain[2:]]
eligible_ancestor_hashes(chain) == {chain[i] : i \in 3..Len(chain)}

\* log.error("Uncle does not have a valid ancestor", ...): its arguments
\* are x.encode('hex') of byte strings, which Python 3 does not have
no_valid_ancestor ==
    IF python = 2 THEN Refused ELSE [ret |-> FALSE, exc |-> "AttributeError"]

\* Block.validate_uncles, the second loop
RECURSIVE uncles_eligible(_, _, _)
uncle_eligible(pow, us, eligible, ineligible) ==
    IF pow.exc # "" THEN [ret |-> FALSE, exc |-> pow.exc]
    ELSE IF ~pow.ret THEN Refused
    ELSE IF Head(us).prevhash \notin eligible THEN no_valid_ancestor
    ELSE IF header_hash(Head(us)) \in ineligible THEN Refused
    ELSE uncles_eligible(Tail(us), eligible, ineligible \cup {header_hash(Head(us))})

uncles_eligible(us, eligible, ineligible) ==
    IF us = <<>> THEN [ret |-> TRUE, exc |-> ""]
    ELSE uncle_eligible(check_pow(Head(us), <<>>), us, eligible, ineligible)

\* ancestor_chain = [a for a in self.get_ancestor_list(MAX_UNCLE_DEPTH + 1) if a]
uncles_on_chain(db, b, anc, chain) ==
    verdict(anc, uncles_eligible(b.uncles, eligible_ancestor_hashes(chain),
                                 ineligible_of(db, chain)))

uncles_on_ancestors(db, b, r) ==
    IF r.exc # "" THEN [anc |-> r.anc, ret |-> FALSE, exc |-> r.exc]
    ELSE uncles_on_chain(db, b, r.anc, SelectSeq(r.ret, LAMBDA a : a # None))

uncles_after_known(anc, db, b, known) ==
    IF known.exc # "" \/ ~known.ret THEN verdict(anc, known)
    ELSE uncles_on_ancestors(db, b,
             get_ancestor_list(anc, db, header_hash(b.header), MAX_UNCLE_DEPTH + 1))

\* validate_uncles without the limit on the number of uncles
validate_uncles_nomax(anc, db, b) ==
    IF b.uncles # b.header.uncles_hash THEN verdict(anc, Refused)
    ELSE uncles_after_known(anc, db, b, uncles_known(db, b, b.uncles))

\* Block.validate_uncles on a block just constructed: anc holds its fresh
\* self.ancestors; b.uncles_hash is the header's field (mirror_from)
validate_uncles(anc, db, b) ==
    IF b.uncles # b.header.uncles_hash THEN verdict(anc, Refused)
    ELSE IF Len(b.uncles) > MAX_UNCLES THEN verdict(anc, Refused)
    ELSE uncles_after_known(anc, db, b, uncles_known(db, b, b.uncles))

\* The header of a block mined on the stored block parent.  The stored chain
\* carries no transactions and its accounts are left out: every block of it
\* keeps the state root of the genesis block, which the ancestor lists and
\* the uncle rules never read.
child_header(parent, coinbase, timestamp, uncles) ==
    seal([prevhash |-> parent.hash,
          uncles_hash |-> uncles,
          coinbase |-> coinbase,
          state_root |-> parent.header.state_root,
          tx_list_root |-> BLANK_ROOT,
          receipts_root |-> BLANK_ROOT,
          bloom |-> {},
          difficulty |-> calc_difficulty(parent.header, timestamp),
          number |-> parent.header.number + 1,
          gas_limit |-> calc_gaslimit(parent.header),
          gas_used |-> 0,
          timestamp |-> timestamp,
          extra_data |-> 0,
          mixhash |-> EMPTY_STRING,
          nonce |-> EMPTY_STRING,
          block |-> FALSE], GoodNonce)

\* the k-th ancestor of the block with hash h, by the prevhash fields alone
RECURSIVE nth_ancestor(_, _)
nth_ancestor(h, k) ==
    IF k = 0 THEN h
    ELSE IF h = None \/ h[1].number = 0 THEN None
    ELSE nth_ancestor(h[1].prevhash, k - 1)

\* a header mined on parent that did not become the block of the chain
uncle_on(parent, coinbase) ==
    child_header(parent, coinbase, parent.header.timestamp + 2, <<>>)

\* the header h with the number field given, mined as such: the number is a
\* field of the header its miner fills
numbered(h, number) ==
    seal([h EXCEPT !.number = number, !.mixhash = EMPTY_STRING,
                   !.nonce = EMPTY_STRING], GoodNonce)

\* the uncles of the stored chain: block 5 includes an uncle mined on block 2
chain_uncles(db, tip) ==
    IF tip.header.number = 4
    THEN <<uncle_on(stored_block(db, nth_ancestor(tip.hash, 2)), 2)>>
    ELSE <<>>

put_header(db, h, uncles) ==
    [db EXCEPT !.blocks = Put(@, header_hash(h),
                              [header |-> h, transaction_list |-> <<>>,
                               uncles |-> uncles])]

RECURSIVE grow(_, _, _)
grown(db, h, uncles, k) ==
    grow(put_header(db, h, uncles), [header |-> h, hash |-> header_hash(h)], k - 1)

child_with(db, tip, uncles, k) ==
    grown(db, child_header(tip, Miner, tip.header.timestamp + 1, uncles), uncles, k)

\* k more blocks on the stored block tip
grow(db, tip, k) ==
    IF k = 0 THEN db ELSE child_with(db, tip, chain_uncles(db, tip), k)

chain_on(db) ==
    grow(db, stored_block(db, CHOOSE h \in DOMAIN db.blocks : TRUE), ChainLen - 1)

ChainDB == chain_on(GenesisDB)

\* ------------------------------------------------------------ chain difficulty
\* utils.encode_int and utils.decode_int: the big-endian integer stored
encode_int(v) == int_to_big_endian(v)
decode_int(v) == big_endian_to_int(v)

\* Block.chain_difficulty, the branch that computes: the sum is stored under
\* the key of the block, unless get_parent or the parent's call raised
difficulty_stored(r, h) ==
    IF r.exc # "" THEN r
    ELSE [db |-> [r.db EXCEPT !.difficulty =
                     Put(@, header_hash(h), encode_int(h.difficulty + r.ret))],
          ret |-> h.difficulty + r.ret, exc |-> ""]

\* chain_difficulty with the difficulty of the parent's chain left out
chain_difficulty_own(db, h) ==
    IF is_genesis([header |-> h])
    THEN [db |-> db, ret |-> h.difficulty, exc |-> ""]
    ELSE difficulty_stored([db |-> db, ret |-> 0, exc |-> ""], h)

\* Block.chain_difficulty of the block with the header h, on the database db:
\* the database afterwards, and what the call returned or raised
RECURSIVE chain_difficulty(_, _)
chain_difficulty(db, h) ==
    IF is_genesis([header |-> h])
    THEN [db |-> db, ret |-> h.difficulty, exc |-> ""]
    ELSE IF header_hash(h) \in DOMAIN db.difficulty
    THEN [db |-> db, ret |-> decode_int(db.difficulty[header_hash(h)]), exc |-> ""]
    ELSE IF h.number = 0 \/ h.prevhash \notin DOMAIN db.blocks
    THEN [db |-> db, ret |-> 0, exc |-> "UnknownParentException"]
    ELSE difficulty_stored(chain_difficulty(db, db.blocks[h.prevhash].header), h)

\* ------------------------------------------------------------ live block
VARIABLES
    mode,    \* which specification runs: it selects the bound on ops
    block,   \* the live Block the executor works on
    snaps,   \* the snapshots the executor holds, oldest first
    ops,     \* number of operations applied so far
    last,    \* the last operation: its name, arguments, result and exception,
             \* and the name of the operation before it
    db,      \* the database the blocks are constructed on
    built,   \* the last construction: its arguments, the database before it
             \* and what it returned or raised
    builds,  \* number of constructions so far
    ancestors \* self.ancestors of every block object get_block has cached,
             \* by the block's hash

vars == <<python, mode, block, snaps, ops, last, db, built, builds, ancestors>>

OpsBound ==
    IF mode \in {"commit", "reset"} THEN MaxCommitOps
    ELSE IF mode = "revert" THEN MaxRevertOps ELSE MaxOps

\* values the callers pass
\* the address the single-account operations are applied to
Actors == {1}
BalanceVals == {1}
Deltas == {0 - 1, TT256 - 1}
NonceVals == {1}
CodeVals == {"c"}
\* (index, value) pairs written to storage
SlotWrites == {<<0, 2>>, <<0, 0>>, <<1, 2>>}
Transfers == {<<1, 2, 1>>, <<2, 1, 1>>}
TxVals == {Tx1}

\* what the accessors return for every address and index, and the counters
Obs(b) ==
    [balance |-> [a \in Addr |-> get_acct_item(b, a, "balance").ret],
     nonce |-> [a \in Addr |-> get_acct_item(b, a, "nonce").ret],
     code |-> [a \in Addr |-> get_acct_item(b, a, "code").ret],
     storage |-> [a \in Addr |-> [k \in Idx |-> get_storage_data(b, a, k).ret]],
     exists |-> [a \in Addr |-> account_exists(b, a)],
     journal_len |-> Len(b.objs[b.journal]),
     gas_used |-> b.header.gas_used,
     refunds |-> b.refunds,
     ether_delta |-> b.ether_delta,
     transaction_count |-> b.transaction_count,
     logs_len |-> Len(b.objs[b.logs]),
     suicides_len |-> Len(b.objs[b.suicides])]

\* the objects still referenced by the block or by a held snapshot
Live(b, ss) ==
    {b.journal, b.suicides, b.logs, b.transactions}
      \cup UNION {{ss[i].snap.journal, ss[i].snap.suicides, ss[i].snap.logs,
                   ss[i].snap.txs} : i \in 1..Len(ss)}

Collect(b, ss) == [b EXCEPT !.objs = [i \in (DOMAIN b.objs) \cap Live(b, ss) |-> b.objs[i]]]

\* the account states a live block may start from (committed, empty cache)
InitStates ==
    {[a \in {1} |-> [nonce |-> 0, balance |-> 2,
                     storage |-> root_hash([k \in {0} |-> rlp_encode_int(1)]),
                     code |-> ""]]}

\* a block with the header fields and the uncles given, on the state st
live_block(header, uncles, st) ==
    [new_block([header EXCEPT !.state_root = root_hash(st), !.block = TRUE],
               uncles, {BLANK_ROOT, root_hash(st)})
       EXCEPT !.state = st]

InitWith(b) ==
    /\ python \in Pythons
    /\ block = b
    /\ snaps = <<>>
    /\ ops = 0
    /\ last = [op |-> "init", args |-> <<>>, ret |-> <<>>, exc |-> "", prev |-> ""]
    /\ db = IF mode \in {"chain", "difficulty"} THEN ChainDB
            ELSE IF mode = "genesis" THEN EmptyDB ELSE GenesisDB
    /\ built = [op |-> "none"]
    /\ builds = 0
    /\ ancestors = IF mode = "chain" THEN cached_blocks(ChainDB) ELSE EmptyDict

InitBlock == \E st \in InitStates : InitWith(live_block(DefaultHeader, <<>>, st))

\* one operation on the live block
Step(name, args, b2, ss, ret, exc) ==
    /\ ops < OpsBound
    /\ ops' = ops + 1
    /\ mode' = mode
    /\ block' = Collect(b2, ss)
    /\ snaps' = ss
    /\ last' = [op |-> name, args |-> args, ret |-> ret, exc |-> exc, prev |-> last.op]
    /\ UNCHANGED <<python, db, built, builds, ancestors>>

SetBalance ==
    \E a \in Actors, v \in BalanceVals :
        Step("set_balance", <<a, v>>, set_acct_item(block, a, "balance", v),
             snaps, <<>>, "")

SetNonce ==
    \E a \in Actors, v \in NonceVals :
        Step("set_nonce", <<a, v>>, set_acct_item(block, a, "nonce", v),
             snaps, <<>>, "")

SetCode ==
    \E a \in Actors, v \in CodeVals :
        Step("set_code", <<a, v>>, set_acct_item(block, a, "code", v),
             snaps, <<>>, "")

DeltaBalance ==
    \E a \in Actors, d \in Deltas :
        LET r == delta_balance(block, a, d)
        IN Step("delta_balance", <<a, d>>, r.b, snaps, <<r.ret>>, "")

IncrementNonce ==
    \E a \in Actors :
        LET r == delta_item(block, a, "nonce", 1)
        IN Step("increment_nonce", <<a, 1>>, r.b, snaps, <<r.ret>>, "")

DecrementNonce ==
    \E a \in Actors :
        LET r == delta_item(block, a, "nonce", 0 - 1)
        IN Step("decrement_nonce", <<a, 0 - 1>>, r.b, snaps, <<r.ret>>, "")

TransferValue ==
    \E x \in Transfers :
        LET r == transfer_value(block, x[1], x[2], x[3])
        IN Step("transfer_value", x, r.b, snaps, <<r.ret>>, "")

SetStorageData ==
    \E a \in Actors, w \in SlotWrites :
        Step("set_storage_data", <<a, w[1], w[2]>>,
             set_storage_data(block, a, w[1], w[2]), snaps, <<>>, "")

ResetStorage ==
    \E a \in Actors :
        Step("reset_storage", <<a>>, reset_storage(block, a), snaps, <<>>, "")

GetBalance ==
    \E a \in Actors :
        LET r == get_acct_item(block, a, "balance")
        IN Step("get_balance", <<a>>, r.b, snaps, <<r.ret>>, "")

GetNonce ==
    \E a \in Actors :
        LET r == get_acct_item(block, a, "nonce")
        IN Step("get_nonce", <<a>>, r.b, snaps, <<r.ret>>, "")

GetCode ==
    \E a \in Actors :
        LET r == get_acct_item(block, a, "code")
        IN Step("get_code", <<a>>, r.b, snaps, <<r.ret>>, "")

GetStorageData ==
    \E a \in Actors, k \in {0} :
        LET r == get_storage_data(block, a, k)
        IN Step("get_storage_data", <<a, k>>, r.b, snaps, <<r.ret>>, "")

AddLog ==
    Step("add_log", <<>>, add_log(block, "log"), snaps, <<>>, "")

\* the executor's own bookkeeping on the block: gas, refunds, ether_delta
\* and the suicides list
ExecutorCounters ==
    \E a \in Actors :
        Step("executor", <<a>>,
             [block EXCEPT !.header.gas_used = @ + 1, !.refunds = @ + 1,
                           !.ether_delta = @ + 1,
                           !.objs[block.suicides] = Append(@, a)],
             snaps, <<>>, "")

CommitState ==
    Step("commit_state", <<>>, commit_state(block), snaps, <<Obs(block)>>, "")

DelAccount ==
    \E a \in Actors :
        Step("del_account", <<a>>, del_account(block, a), snaps, <<>>, "")

AddTransactionToList ==
    \E tx \in TxVals :
        Step("add_transaction_to_list", <<tx>>, add_transaction_to_list(block, tx),
             snaps, <<>>, "")

Snapshot ==
    /\ Len(snaps) < 2
    /\ Step("snapshot", <<>>, block,
            Append(snaps, [snap |-> snapshot(block), obs |-> Obs(block),
                           txroot |-> root_hash(block.objs[block.transactions]),
                           rcroot |-> root_hash(block.receipts),
                           caches |-> block.caches]),
            <<>>, "")

\* the entries of the snapshot's journal list beyond the size it recorded
journal_after(b, mysnapshot) ==
    SubSeq(b.objs[mysnapshot.journal], mysnapshot.journal_size + 1,
           Len(b.objs[mysnapshot.journal]))

\* revert to a held snapshot; the snapshots taken after it are dropped with
\* it.  Kept of the call: what the accessors returned before it and the
\* journal entries it is to undo.
Revert ==
    \E i \in 1..Len(snaps) :
        LET r == revert(block, snaps[i].snap)
        IN Step("revert", <<snaps[i]>>, r.b, SubSeq(snaps, 1, i - 1),
                <<Obs(block), journal_after(block, snaps[i].snap)>>, r.exc)

\* the executor's cache operations, snapshot and revert
Next ==
    \/ SetBalance \/ SetNonce \/ SetCode
    \/ DeltaBalance \/ IncrementNonce \/ DecrementNonce \/ TransferValue
    \/ SetStorageData \/ ResetStorage
    \/ GetBalance \/ GetNonce \/ GetCode \/ GetStorageData
    \/ AddLog \/ ExecutorCounters
    \/ Snapshot \/ Revert

Init == mode = "journal" /\ InitBlock

Spec == Init /\ [][Next]_vars

\* the operations around commit_state: writes, reads, commit, del_account,
\* add_transaction_to_list, snapshot and revert
NextCommit ==
    \/ SetBalance \/ SetStorageData \/ GetBalance \/ GetStorageData
    \/ CommitState \/ DelAccount \/ AddTransactionToList
    \/ Snapshot \/ Revert

InitCommit == mode = "commit" /\ InitBlock

SpecCommit == InitCommit /\ [][NextCommit]_vars

\* writes of the balance and of storage slots, reads, nested snapshots and
\* reverts, long enough for two snapshots, writes after each and two reverts
NextRevert ==
    \/ SetBalance \/ DeltaBalance \/ GetBalance \/ SetStorageData
    \/ Snapshot \/ Revert

InitRevert == mode = "revert" /\ InitBlock

SpecRevert == InitRevert /\ [][NextRevert]_vars

\* commit_state by a caller that reverts to no snapshot taken before it: the
\* snapshots held are given up
CommitAndRelease ==
    Step("commit_state", <<>>, commit_state(block), <<>>, <<Obs(block)>>, "")

\* reset_storage among writes and reads of storage slots, commit_state,
\* snapshots and reverts; every revert is to a snapshot taken after the last
\* commit_state
NextReset ==
    \/ SetStorageData \/ ResetStorage \/ GetStorageData \/ CommitAndRelease
    \/ Snapshot \/ Revert

InitReset == mode = "reset" /\ InitBlock

SpecReset == InitReset /\ [][NextReset]_vars

\* (from, to, value) of the transfers: between two accounts and of an account
\* to itself, of nothing, of one unit and of more than any account but a
\* full one holds
TransferArgs ==
    {<<1, 2, 1>>, <<2, 1, 1>>, <<1, 1, 1>>, <<1, 2, 0>>, <<1, 2, 3>>}

TransferValueOf ==
    \E x \in TransferArgs :
        LET r == transfer_value(block, x[1], x[2], x[3])
        IN Step("transfer_value", x, r.b, snaps, <<r.ret>>, "")

\* transfers among the balance operations that empty and fill an account
NextTransfer ==
    \/ TransferValueOf \/ DeltaBalance \/ GetBalance \/ CommitState

InitTransfer == mode = "transfer" /\ InitBlock

SpecTransfer == InitTransfer /\ [][NextTransfer]_vars

\* ------------------------------------------------------------ finalize runs
\* Cache operations and finalize on blocks that carry uncles.  The block has
\* number 10; its uncles are headers of the numbers and coinbases given.
RewardHeader(number, coinbase) ==
    [DefaultHeader EXCEPT !.number = number, !.coinbase = coinbase]

RewardUncles ==
    {<<>>, <<RewardHeader(8, 2)>>, <<RewardHeader(9, 2), RewardHeader(8, 1)>>,
     <<RewardHeader(9, 1), RewardHeader(9, 1)>>, <<RewardHeader(2, 2)>>,
     <<RewardHeader(1, 2)>>, <<RewardHeader(11, 2)>>}

Finalize == Step("finalize", <<>>, finalize(block), snaps, <<>>, "")

NextFinalize == SetBalance \/ DeltaBalance \/ TransferValue \/ Finalize

InitFinalize ==
    /\ mode = "finalize"
    /\ \E st \in InitStates, c \in Addr, us \in RewardUncles :
          InitWith(live_block(RewardHeader(10, c), us, st))

SpecFinalize == InitFinalize /\ [][NextFinalize]_vars

\* ------------------------------------------------------------ cached blocks
\* CachedBlock.create_cached: the class of the block is changed; the class
\* attribute _hash_cached is None
create_cached(blk) == blk @@ [hash_cached |-> <<>>]

\* CachedBlock._set_acct_item(self) and CachedBlock.revert(self) take no
\* argument: the calls the inherited methods make, with arguments, raise
\* before the body runs
cached_raises(b) == [b |-> b, ret |-> <<>>, exc |-> "TypeError"]

\* Block._delta_item on a cached block: the read, then _set_acct_item
cached_delta_written(r, value) ==
    IF r.ret + value < 0 THEN [b |-> r.b, ret |-> <<FALSE>>, exc |-> ""]
    ELSE cached_raises(r.b)

cached_delta_item(b, address, param, value) ==
    cached_delta_written(get_acct_item(b, address, param), value)

\* Block.del_account on a cached block: commit_state is pass
cached_del_account(b, address) == state_delete(b, address)

\* Block.state_root (setter), which CachedBlock inherits
set_state_root(b, value) == reset_cache([b EXCEPT !.state = TrieAt(value)])

\* Block.hash on a cached block: the state root is read with commit_state
\* being pass
cached_block_hash(b) ==
    header_hash([b.header EXCEPT !.state_root = root_hash(b.state),
                                 !.tx_list_root = root_hash(b.objs[b.transactions]),
                                 !.receipts_root = root_hash(b.receipts)])

\* CachedBlock.hash
cached_hash(b) ==
    IF b.hash_cached = <<>>
    THEN [b |-> [b EXCEPT !.hash_cached = <<cached_block_hash(b)>>],
          ret |-> cached_block_hash(b)]
    ELSE [b |-> b, ret |-> b.hash_cached[1]]

Stepped(name, args, r) == Step(name, args, r.b, snaps, r.ret, r.exc)

CachedSetBalance ==
    \E a \in Actors, v \in BalanceVals :
        Stepped("set_balance", <<a, v>>, cached_raises(block))

CachedSetNonce ==
    \E a \in Actors, v \in NonceVals :
        Stepped("set_nonce", <<a, v>>, cached_raises(block))

CachedSetCode ==
    \E a \in Actors, v \in CodeVals :
        Stepped("set_code", <<a, v>>, cached_raises(block))

CachedDeltaBalance ==
    \E a \in Actors, d \in Deltas :
        Stepped("delta_balance", <<a, d>>, cached_delta_item(block, a, "balance", d))

CachedResetStorage ==
    \E a \in Actors : Stepped("reset_storage", <<a>>, cached_raises(block))

CachedDelAccount ==
    \E a \in Actors :
        Step("del_account", <<a>>, cached_del_account(block, a), snaps, <<>>, "")

\* block.state_root = value, value a root the database holds
SetStateRoot ==
    \E value \in block.db :
        Step("state_root", <<value>>, set_state_root(block, value), snaps, <<>>, "")

CachedRevert == Stepped("revert", <<snapshot(block)>>, cached_raises(block))

CachedCommitState == Step("commit_state", <<>>, block, snaps, <<>>, "")

CachedHash ==
    \E r \in {cached_hash(block)} : Step("hash", <<>>, r.b, snaps, <<r.ret>>, "")

NextCached ==
    \/ CachedSetBalance \/ CachedSetNonce \/ CachedSetCode \/ CachedDeltaBalance
    \/ SetStorageData \/ CachedResetStorage \/ CachedDelAccount \/ SetStateRoot
    \/ CachedRevert \/ CachedCommitState \/ CachedHash
    \/ GetBalance \/ GetNonce \/ GetCode \/ GetStorageData

InitCached ==
    /\ mode = "cached"
    /\ \E st \in InitStates : InitWith(create_cached(live_block(DefaultHeader, <<>>, st)))

SpecCached == InitCached /\ [][NextCached]_vars

\* ------------------------------------------------------------ construction runs
\* the outcome of a construction, kept with its arguments
Built(op, inp, r) ==
    /\ db' = r.db
    /\ built' = [op |-> op, input |-> inp, pre |-> db,
                 b |-> r.b, exc |-> r.exc, path |-> r.path,
                 calls |-> r.calls, parent |-> r.parent]

\* a caller constructs a Block for a block mined on a stored block
Construct ==
    /\ builds < MaxBuilds
    /\ \E k \in DOMAIN db.blocks, sc \in Scenarios :
         \E inp \in Inputs(db, stored_block(db, k), sc) :
            Built("construct", inp,
                  Block_init(inp.header, inp.transaction_list, inp.uncles, db,
                             inp.parent, inp.making))
    /\ builds' = builds + 1
    /\ UNCHANGED <<python, mode, block, snaps, ops, last, ancestors>>

\* the gas limits of the genesis headers a caller constructs: the genesis gas
\* limit, and the two around MIN_GAS_LIMIT * 1024 / 1025
HeaderGasLimits == {MIN_GAS_LIMIT - 122, MIN_GAS_LIMIT - 121, GENESIS_GAS_LIMIT}

\* a caller constructs a Block from a genesis header of its own, with an empty
\* state and no parent
ConstructGenesis ==
    /\ builds < MaxBuilds
    /\ \E gl \in HeaderGasLimits :
         \E h \in {[genesis_header(GENESIS_DIFFICULTY) EXCEPT !.gas_limit = gl]} :
            Built("construct_genesis",
                  [fault |-> "none", header |-> h,
                   transaction_list |-> <<(<<>>)>>, uncles |-> <<>>,
                   parent |-> <<>>, making |-> FALSE, mined |-> h, txs |-> <<>>],
                  Block_init(h, <<(<<>>)>>, <<>>, db, <<>>, FALSE))
    /\ builds' = builds + 1
    /\ UNCHANGED <<python, mode, block, snaps, ops, last, ancestors>>

\* init_from_parent without block.ancestors += parent.ancestors
opened_ancestors_own(block_hash_, parent) == <<block_hash_>>

\* init_from_parent, block.ancestors += parent.ancestors: the list of the
\* block constructed is [block], the parent's is the one its constructor made
opened_ancestors(block_hash_, parent) ==
    <<block_hash_>> \o fresh_ancestors(parent.hash)

\* the arguments init_from_parent passes to the constructor, and the block it
\* returns with its ancestor list
opened(r, parent, nonce, uncles) ==
    /\ db' = r.db
    /\ built' = [op |-> "init_from_parent",
                 input |-> [fault |-> "none", header |-> r.b.header,
                            transaction_list |-> <<(<<>>)>>, uncles |-> uncles,
                            parent |-> <<parent>>, making |-> TRUE,
                            mined |-> r.b.header, txs |-> <<>>,
                            nonce |-> nonce],
                 pre |-> db, b |-> r.b, exc |-> r.exc, path |-> r.path,
                 calls |-> r.calls, parent |-> r.parent,
                 ancestors |-> opened_ancestors(block_hash(r.b), parent)]

\* the blocks a miner has at hand: the stored ones, and the genesis block the
\* caller has just constructed
Parents ==
    {stored_block(db, k) : k \in DOMAIN db.blocks}
    \cup (IF built.op = "construct_genesis" /\ built.exc = ""
          THEN {[header |-> live_header(built.b), hash |-> block_hash(built.b)]}
          ELSE {})

\* a miner opens a block on one of them, with the default nonce b'' or with
\* a nonce of 8 bytes
InitFromParent ==
    /\ builds < MaxBuilds
    /\ \E parent \in Parents, sc \in Scenarios, nonce \in {EMPTY_STRING, GoodNonce} :
         opened(init_from_parent(parent, Miner, nonce, 0,
                                 parent.header.timestamp + 1, sc.uncles, db),
                parent, nonce, sc.uncles)
    /\ builds' = builds + 1
    /\ UNCHANGED <<python, mode, block, snaps, ops, last, ancestors>>

\* the importer stores the block just constructed from the wire
StoreBlock ==
    /\ built.op = "construct"
    /\ built.exc = ""
    /\ ~built.input.making
    /\ block_hash(built.b) \notin DOMAIN db.blocks
    /\ db' = store(db, built.b, built.input.txs)
    /\ UNCHANGED <<python, mode, block, snaps, ops, last, built, builds, ancestors>>

\* the caller constructs the block of the last construction once more, from
\* the same header, transactions, uncles and parent (a header decoded anew:
\* its block attribute is unset), on the database the first call left
Rebuilt(first, r) ==
    /\ db' = r.db
    /\ built' = [op |-> "reconstruct", input |-> first.input, pre |-> db,
                 b |-> r.b, exc |-> r.exc, path |-> r.path,
                 calls |-> r.calls, parent |-> r.parent,
                 first |-> [b |-> first.b, exc |-> first.exc, path |-> first.path]]

Reconstruct ==
    /\ builds < MaxBuilds
    /\ built.op = "construct"
    /\ Rebuilt(built, Block_init(built.input.header, built.input.transaction_list,
                                 built.input.uncles, db, built.input.parent,
                                 built.input.making))
    /\ builds' = builds + 1
    /\ UNCHANGED <<python, mode, block, snaps, ops, last, ancestors>>

\* the caller constructs the block just validated once more with
\* transaction_list = None and no parent, as init_from_header does, and with
\* the uncles of the block
HeaderBuilt(first, r) ==
    /\ db' = r.db
    /\ built' = [op |-> "from_header",
                 input |-> [first.input EXCEPT !.transaction_list = <<>>,
                                               !.parent = <<>>],
                 pre |-> db, b |-> r.b, exc |-> r.exc, path |-> r.path,
                 calls |-> r.calls, parent |-> r.parent,
                 first |-> [b |-> first.b, exc |-> first.exc, path |-> first.path]]

ConstructFromHeader ==
    /\ builds < MaxBuilds
    /\ built.op = "construct"
    /\ built.exc = ""
    /\ header_hash(built.input.header) \in db.validated
    /\ HeaderBuilt(built, Block_init(built.input.header, <<>>, built.input.uncles, db,
                                     <<>>, FALSE))
    /\ builds' = builds + 1
    /\ UNCHANGED <<python, mode, block, snaps, ops, last, ancestors>>

NextBuild ==
    \/ Construct \/ InitFromParent \/ StoreBlock \/ Reconstruct
    \/ ConstructFromHeader \/ ConstructGenesis

InitBuild == mode = "build" /\ InitBlock

SpecBuild == InitBuild /\ [][NextBuild]_vars

\* ------------------------------------------------------------ genesis runs
\* genesis on an empty database, for the allocations below: each address is
\* left out or given one of the data dicts
AllocData ==
    {NoData,
     [NoData EXCEPT !.wei = <<10>>],
     [NoData EXCEPT !.balance = <<0>>],
     [NoData EXCEPT !.wei = <<5>>, !.balance = <<7>>],
     [NoData EXCEPT !.nonce = <<1>>],
     [NoData EXCEPT !.code = <<"c">>],
     [NoData EXCEPT !.storage = [k \in {0} |-> 2]],
     [NoData EXCEPT !.storage = [k \in {0} |-> 0]],
     [NoData EXCEPT !.wei = <<3>>, !.storage = [k \in {0, 1} |-> 2 * k]],
     [NoData EXCEPT !.balance = <<3>>, !.nonce = <<2>>, !.code = <<"c">>,
                    !.storage = [k \in {1} |-> 200]]}

Allocs ==
    UNION {[S -> AllocData] : S \in SUBSET Addr}

GenesisDifficulties == {GENESIS_DIFFICULTY, 1}

GenesisBuilt(start_alloc, difficulty, g) ==
    /\ db' = g.db
    /\ built' = [op |-> "genesis", input |-> start_alloc, difficulty |-> difficulty,
                 pre |-> db, b |-> g.b,
                 exc |-> Block_init(genesis_header(difficulty), <<(<<>>)>>, <<>>, db,
                                    <<>>, FALSE).exc]

Genesis ==
    /\ built.op = "none"
    /\ \E start_alloc \in Allocs, difficulty \in GenesisDifficulties :
         GenesisBuilt(start_alloc, difficulty, genesis(db, start_alloc, difficulty))
    /\ builds' = builds + 1
    /\ UNCHANGED <<python, mode, block, snaps, ops, last, ancestors>>

NextGenesis == Genesis

InitGenesis == mode = "genesis" /\ InitBlock

SpecGenesis == InitGenesis /\ [][NextGenesis]_vars

\* ------------------------------------------------------ consensus functions
\* The functions of the consensus rules, applied to arguments drawn from the
\* sets below; last holds the call, what it returned and what it raised.

\* the nonce for which hashimoto_light gives the result r
NonceFor(r) == Bytes(8, 8 * r)

\* difficulties of a header: zero, divisors of 2**256 and others
PowDifficulties ==
    {0, 1, 3, 5, 2 ^ (WordBits - 6), MIN_DIFF,
     MIN_DIFF + MIN_DIFF \div BLOCK_DIFF_FACTOR}

\* results of hashimoto_light around the target of a difficulty, within the
\* 32 bytes of a result
PowResults(d) ==
    {r \in {0,
            TT256 \div max(d, 1) - 1, TT256 \div max(d, 1), TT256 \div max(d, 1) + 1,
            true_div_floor(TT256, max(d, 1)), true_div_floor(TT256, max(d, 1)) + 1} :
        r >= 0 /\ r < TT256}

\* the header's mixhash: the digest of its nonce, another digest, too short
PowMixhashes(nonce) == {Bytes(32, nonce.val), Bytes(32, nonce.val + 1), EMPTY_STRING}

\* the header's nonce and the nonce argument (<<>> for None)
PowNonces(r) ==
    {<<NonceFor(r), <<>>>>, <<EMPTY_STRING, <<>>>>, <<EMPTY_STRING, <<NonceFor(r)>>>>,
     <<NonceFor(r), <<NonceFor(r)>>>>, <<GENESIS_NONCE, <<NonceFor(r)>>>>}

Called(name, args, ret, exc) ==
    /\ last' = [op |-> name, args |-> args, ret |-> ret, exc |-> exc, prev |-> ""]
    /\ UNCHANGED <<python, mode, block, snaps, ops, db, built, builds, ancestors>>

PowChecked(h, nonce, r) ==
    Called("check_pow", [h |-> h, nonce |-> nonce], <<r.ret>>, r.exc)

\* a header that is not a genesis header
PowHeader(d, mixhash, nonce) ==
    [DefaultHeader EXCEPT !.prevhash = <<Uncle>>, !.number = 1, !.difficulty = d,
                          !.mixhash = mixhash, !.nonce = nonce]

CheckPow ==
    \E d \in PowDifficulties :
      \E r \in PowResults(d) :
        \E ns \in PowNonces(r), m \in PowMixhashes(NonceFor(r)) :
          PowChecked(PowHeader(d, m, ns[1]), ns[2],
                     check_pow(PowHeader(d, m, ns[1]), ns[2]))

\* parents of calc_difficulty and the distance of the child's timestamp
ParentDifficulties ==
    {0, 1000, BLOCK_DIFF_FACTOR - 1, BLOCK_DIFF_FACTOR, MIN_DIFF - 1, MIN_DIFF,
     MIN_DIFF + 1, MIN_DIFF + BLOCK_DIFF_FACTOR, 2 * MIN_DIFF}
ParentTimestamps == {0, 100}
TimestampSteps ==
    {0 - 1, 0, DIFF_ADJUSTMENT_CUTOFF - 1, DIFF_ADJUSTMENT_CUTOFF,
     DIFF_ADJUSTMENT_CUTOFF + 1}

CalcDifficulty ==
    \E d \in ParentDifficulties, t \in ParentTimestamps, dt \in TimestampSteps :
        /\ t + dt >= 0
        /\ Called("calc_difficulty",
                  [parent |-> [DefaultHeader EXCEPT !.difficulty = d, !.timestamp = t],
                   timestamp |-> t + dt],
                  <<calc_difficulty([DefaultHeader EXCEPT !.difficulty = d,
                                                          !.timestamp = t], t + dt)>>,
                  "")

\* parents of the gas limit functions
ParentGasLimits ==
    {GASLIMIT_EMA_FACTOR, MIN_GAS_LIMIT, MIN_GAS_LIMIT + 121, MIN_GAS_LIMIT + 122,
     GENESIS_GAS_LIMIT, GENESIS_GAS_LIMIT + 1, GENESIS_GAS_LIMIT + 3069,
     GENESIS_GAS_LIMIT + 3070, 4000000}
ParentGasUsed(gl) == {0, 2000000, gl}

CalcGaslimit ==
    \E gl \in ParentGasLimits :
      \E gu \in ParentGasUsed(gl) :
        Called("calc_gaslimit",
               [parent |-> [DefaultHeader EXCEPT !.gas_limit = gl, !.gas_used = gu]],
               <<calc_gaslimit([DefaultHeader EXCEPT !.gas_limit = gl, !.gas_used = gu])>>,
               IF check_gaslimit([DefaultHeader EXCEPT !.gas_limit = gl, !.gas_used = gu],
                                 calc_gaslimit([DefaultHeader EXCEPT !.gas_limit = gl,
                                                                     !.gas_used = gu]))
               THEN "" ELSE "AssertionError")

\* gas limits of a child: around both ends of the window, and the values of
\* a parent with the genesis gas limit that used 2000000
ChildGasLimits(gl) ==
    {gl - gl \div GASLIMIT_EMA_FACTOR - 1, gl - gl \div GASLIMIT_EMA_FACTOR, gl,
     gl + gl \div GASLIMIT_EMA_FACTOR, gl + gl \div GASLIMIT_EMA_FACTOR + 1,
     3141454, 3141592 + 3068}

CheckGaslimit ==
    \E gl \in ParentGasLimits :
      \E gu \in ParentGasUsed(gl), c \in ChildGasLimits(gl) :
        Called("check_gaslimit",
               [parent |-> [DefaultHeader EXCEPT !.gas_limit = gl, !.gas_used = gu],
                gas_limit |-> c],
               <<check_gaslimit([DefaultHeader EXCEPT !.gas_limit = gl, !.gas_used = gu],
                                c)>>,
               "")

NextCalc == CheckPow \/ CalcDifficulty \/ CalcGaslimit \/ CheckGaslimit

InitCalc == mode = "calc" /\ InitBlock

SpecCalc == InitCalc /\ [][NextCalc]_vars

\* ------------------------------------------------------------ chain runs
\* Calls of get_ancestor_list, get_ancestor and validate_uncles on the blocks
\* of a stored chain of ChainLen blocks, at most MaxCalls of them.
MaxCalls == 2

\* the n of get_ancestor_list(n): within the chain, the uncle depth, and
\* past the 256 entries the genesis block pads
AncestorCounts == {0, 1, MAX_UNCLE_DEPTH + 1, 300}

ChainCalled(name, args, anc, ret, exc) ==
    /\ ops' = ops + 1
    /\ ancestors' = anc
    /\ last' = [op |-> name, args |-> args, ret |-> ret, exc |-> exc, prev |-> last.op]
    /\ UNCHANGED <<python, mode, block, snaps, db, built, builds>>

AncestorsCalled(name, self, n, r) ==
    ChainCalled(name, [self |-> self, n |-> n], r.anc, r.ret, r.exc)

GetAncestorList ==
    /\ ops < MaxCalls
    /\ \E self \in DOMAIN db.blocks, n \in AncestorCounts :
        \E r \in {get_ancestor_list(ancestors, db, self, n)} :
            AncestorsCalled("get_ancestor_list", self, n, r)

GetAncestor ==
    /\ ops < MaxCalls
    /\ \E self \in DOMAIN db.blocks, n \in AncestorCounts :
        \E r \in {get_ancestor(ancestors, db, self, n)} :
            AncestorsCalled("get_ancestor", self, n, r)

\* the depths, counted from a block mined on the tip, of the ancestors the
\* offered uncles are mined on
UncleDepths == 1..(MAX_UNCLE_DEPTH + 2)

\* Headers offered as uncles of a block mined on tip, each named by a kind,
\* the depth of an ancestor and a coinbase: a header mined on that ancestor,
\* such a header without the work, the header of the ancestor itself, and a
\* header mined on that ancestor whose number field is 3 above ("ahead") or
\* 6 below ("behind", or 0) the number of the ancestor.
Mined(k, c) == <<"mined", k, c>>
UncleShapes ==
    {<<>>}
    \cup {<<Mined(k, 1)>> : k \in {1, 2, MAX_UNCLE_DEPTH, MAX_UNCLE_DEPTH + 1,
                                   MAX_UNCLE_DEPTH + 2}}
    \cup {<<Mined(k, 2)>> : k \in UncleDepths}
    \cup {<<(<<"ancestor", k, 0>>)>> : k \in {1, 3, MAX_UNCLE_DEPTH + 1,
                                              MAX_UNCLE_DEPTH + 2}}
    \cup {<<(<<"nowork", 2, 1>>)>>, <<Mined(2, 1), Mined(2, 1)>>,
          <<Mined(6, 2), Mined(6, 2)>>, <<Mined(2, 1), Mined(2, 2)>>,
          <<Mined(2, 1), Mined(3, 1)>>, <<Mined(6, 1), Mined(7, 1)>>,
          <<Mined(3, 1), <<"nowork", 2, 1>>>>, <<Mined(2, 1), <<"ancestor", 3, 0>>>>,
          <<Mined(2, 1), Mined(3, 1), Mined(4, 1)>>,
          <<(<<"ahead", 2, 2>>)>>, <<(<<"behind", 2, 2>>)>>}

\* the uncles lists the header of a block with the uncles us commits to
NamedUncles(us) == IF Len(us) = 1 /\ us[1].coinbase = 1 THEN {us, <<>>} ELSE {us}

\* the header a shape names, parent being the ancestor it is mined on
offered(chain, parent, kind, coinbase) ==
    IF kind = "ancestor" THEN chain.blocks[parent].header
    ELSE IF kind = "nowork"
    THEN [uncle_on(stored_block(chain, parent), coinbase) EXCEPT !.nonce = BadNonce]
    ELSE IF kind = "ahead"
    THEN numbered(uncle_on(stored_block(chain, parent), coinbase),
                  chain.blocks[parent].header.number + 3)
    ELSE IF kind = "behind"
    THEN numbered(uncle_on(stored_block(chain, parent), coinbase),
                  max(chain.blocks[parent].header.number - 6, 0))
    ELSE uncle_on(stored_block(chain, parent), coinbase)

Offered(chain, tip, shape) ==
    [i \in DOMAIN shape |->
        offered(chain, nth_ancestor(tip.hash, shape[i][2] - 1), shape[i][1], shape[i][3])]

\* the block mined on tip with the uncles us; named is the uncles list its
\* header commits to
candidate(tip, us, named) ==
    [header |-> child_header(tip, Miner, tip.header.timestamp + 3, named),
     uncles |-> us]

UnclesValidated(b, r) ==
    ChainCalled("validate_uncles", b, Del(r.anc, header_hash(b.header)),
                <<r.ret>>, r.exc)

ValidateOn(b) ==
    \E r \in {validate_uncles(Put(ancestors, header_hash(b.header),
                                  <<header_hash(b.header)>>), db, b)} :
        UnclesValidated(b, r)

ValidateUncles ==
    /\ ops < MaxCalls
    /\ \E h \in DOMAIN db.blocks, shape \in UncleShapes :
        /\ \A i \in DOMAIN shape : nth_ancestor(h, shape[i][2] - 1) # None
        /\ \E tip \in {stored_block(db, h)} :
             \E us \in {Offered(db, tip, shape)} :
               \E named \in NamedUncles(us) :
                 \E b \in {candidate(tip, us, named)} : ValidateOn(b)

NextChain == GetAncestorList \/ GetAncestor \/ ValidateUncles

InitChain == mode = "chain" /\ InitBlock

SpecChain == InitChain /\ [][NextChain]_vars

\* ------------------------------------------------------------ difficulty runs
\* Calls of chain_difficulty on the blocks of the stored chain, on a block
\* mined on its tip that is not stored, on a block whose parent is unknown
\* and on a block of number 0 that is not the genesis block.
DifficultyBlocks ==
    {db.blocks[k].header : k \in DOMAIN db.blocks}
    \cup {child_header(stored_block(db, k), Miner, db.blocks[k].header.timestamp + 9, <<>>) :
            k \in {x \in DOMAIN db.blocks : db.blocks[x].header.number = ChainLen - 1}}
    \cup {[DefaultHeader EXCEPT !.prevhash = <<Uncle>>, !.number = 1],
          [DefaultHeader EXCEPT !.nonce = GoodNonce]}

ChainDifficulty ==
    /\ ops < MaxCalls
    /\ \E h \in DifficultyBlocks :
         \E r \in {chain_difficulty(db, h)} :
            /\ db' = r.db
            /\ ops' = ops + 1
            /\ last' = [op |-> "chain_difficulty",
                        args |-> [self |-> h,
                                  stored |-> header_hash(h) \in DOMAIN db.difficulty],
                        ret |-> <<r.ret>>, exc |-> r.exc, prev |-> last.op]
    /\ UNCHANGED <<python, mode, block, snaps, built, builds, ancestors>>

NextDifficulty == ChainDifficulty

InitDifficulty == mode = "difficulty" /\ InitBlock

SpecDifficulty == InitDifficulty /\ [][NextDifficulty]_vars

\* ------------------------------------------------------------ codec runs
\* pyethereum/utils.py is Python 2 source ('%x' % integer, str.decode('hex'),
\* str.encode('hex'), long): its two functions are what they compute there.
\* The integers passed: the small ones, and those around the powers of 256
\* up to the width of a word.
CodecInts ==
    (0 .. 130) \cup {255, 256, 257, 4095, 4096, 65535, 65536, 65537,
                     2 ^ WordBits - 1, 2 ^ WordBits}

\* the byte strings passed: up to two bytes, leading zero bytes included
CodecBytes == {0, 1, 127, 128, 255}
CodecStrings ==
    {<<>>} \cup {<<x>> : x \in CodecBytes}
           \cup {<<x, y>> : x \in CodecBytes, y \in CodecBytes}

IntToBigEndian ==
    \E integer \in CodecInts :
        Called("int_to_big_endian", [integer |-> integer],
               <<int_to_big_endian(integer)>>, "")

BigEndianToInt ==
    \E string \in CodecStrings :
        Called("big_endian_to_int", [string |-> string],
               <<big_endian_to_int(string)>>, "")

\* big_endian_to_int(int_to_big_endian(integer))
RoundTrip ==
    \E integer \in CodecInts :
        Called("round_trip", [integer |-> integer],
               <<big_endian_to_int(int_to_big_endian(integer))>>, "")

NextCodec == IntToBigEndian \/ BigEndianToInt \/ RoundTrip

InitCodec == mode = "codec" /\ InitBlock

SpecCodec == InitCodec /\ [][NextCodec]_vars

\* ------------------------------------------------------------ header runs
\* The database is a key-value store: blocks are put under keys and headers
\* loaded by key.  The headers stored and the keys, each the hash of one of
\* the headers: a block is stored under the hash of its header or under the
\* hash of another one.
StoredHeaders ==
    {[DefaultHeader EXCEPT !.prevhash = <<Uncle>>, !.number = n, !.coinbase = c] :
        n \in {1, 2}, c \in {1, 2}}
StoredKeys == {header_hash(h) : h \in StoredHeaders}

\* db.put(key, rlp.encode(block))
PutBlock ==
    /\ ops < MaxCalls
    /\ \E key \in StoredKeys, h \in StoredHeaders :
          /\ db' = [db EXCEPT !.blocks = Put(@, key, [header |-> h,
                                                      transaction_list |-> <<>>,
                                                      uncles |-> <<>>])]
          /\ ops' = ops + 1
          /\ last' = [op |-> "put", args |-> [key |-> key, header |-> h],
                      ret |-> <<>>, exc |-> "", prev |-> last.op]
    /\ UNCHANGED <<python, mode, block, snaps, built, builds, ancestors>>

GetBlockHeader ==
    \E blockhash \in DOMAIN db.blocks :
        /\ last' = [op |-> "get_block_header", args |-> [blockhash |-> blockhash],
                    ret |-> <<get_block_header(db, blockhash)>>, exc |-> "",
                    prev |-> last.op]
        /\ UNCHANGED <<python, mode, block, snaps, ops, db, built, builds, ancestors>>

NextHeader == PutBlock \/ GetBlockHeader

InitHeader == mode = "header" /\ InitBlock

SpecHeader == InitHeader /\ [][NextHeader]_vars

\* ----------------------------------------------------------------- claims

\* C1 (journal law): after revert(S), with only cache operations, add_log and
\* the executor's counters between snapshot S and the revert, every value
\* returned by get_balance/get_nonce/get_code/get_storage_data and
\* account_exists, the journal length and the counters gas_used, refunds,
\* ether_delta, transaction_count, len(logs), len(suicides) are those at S,
\* and the revert raises nothing.
C1_JournalLaw ==
    last.op = "revert" => (last.exc = "" /\ Obs(block) = last.args[1].obs)

\* a revert that undid at least two journal entries and changed what the
\* accessors return
C1_Witness ==
    /\ last.op = "revert"
    /\ last.ret[1].journal_len >= last.args[1].obs.journal_len + 2
    /\ last.ret[1].balance # last.args[1].obs.balance
    /\ Obs(block) = last.args[1].obs

\* C5 (delta): delta_balance, increment_nonce and decrement_nonce return
\* False, append nothing to the journal and change no observable value when
\* current + delta < 0; otherwise they store (current + delta) mod 2^256,
\* mark the address touched and return True.
C5_Delta ==
    [][last'.op \in {"delta_balance", "increment_nonce", "decrement_nonce"} =>
        LET a == last'.args[1]
            d == last'.args[2]
            f == IF last'.op = "delta_balance" THEN "balance" ELSE "nonce"
            cur == Obs(block)[f][a]
        IN IF cur + d < 0
           THEN /\ last'.ret = <<FALSE>>
                /\ block'.objs[block'.journal] = block.objs[block.journal]
                /\ Obs(block') = Obs(block)
           ELSE /\ last'.ret = <<TRUE>>
                /\ Obs(block')[f][a] = (cur + d) % TT256
                /\ a \in DOMAIN block'.caches.all]_vars

\* a delta_balance that succeeded and wrapped around 2^256
C5_Witness ==
    /\ last.op = "delta_balance"
    /\ last.ret = <<TRUE>>
    /\ last.args[2] > 0
    /\ Obs(block).balance[last.args[1]] < last.args[2]
    /\ last.args[1] \in DOMAIN block.caches.all

\* C2 (the claim as stated): after a revert the transaction trie root, the
\* receipts trie root and transaction_count equal their values at the
\* snapshot, and get_transaction(i) raises IndexError for every
\* i >= transaction_count.
C2_TrieRootsRestored ==
    (last.op = "revert" /\ last.exc = "") =>
        /\ root_hash(block.objs[block.transactions]) = last.args[1].txroot
        /\ root_hash(block.receipts) = last.args[1].rcroot
        /\ block.transaction_count = last.args[1].snap.txcount
        /\ \A i \in 0..MaxCommitOps :
              i >= block.transaction_count =>
                  get_transaction(block, i).exc = "IndexError"

\* C3 (the claim as stated): every address that holds a cached storage
\* write is in the touched set caches['all'].
C3_StorageWritesTouched ==
    \A a \in Addr :
        (a \in DOMAIN block.caches.slots /\ DOMAIN block.caches.slots[a] # {})
            => a \in DOMAIN block.caches.all

\* C4 (idempotence): a commit_state right after a commit_state, and a
\* commit_state on an empty journal, leave the state trie, the caches, the
\* journal and every other field of the block unchanged.
C4_CommitIdempotent ==
    [][(last'.op = "commit_state"
          /\ (last.op = "commit_state" \/ Len(block.objs[block.journal]) = 0))
        => block' = block]_vars

\* a second commit_state in a row, after a first one that wrote the trie
C4_Witness ==
    /\ last.op = "commit_state"
    /\ last.prev = "commit_state"
    /\ block.state \notin InitStates
    /\ Len(block.objs[block.journal]) = 0

\* the trie of a transaction list, as add_transaction_to_list fills it
TxTrie(txs) == [i \in 0..(Len(txs) - 1) |-> txs[i + 1]]

RECURSIVE SumGas(_)
SumGas(txs) == IF txs = <<>> THEN 0 ELSE Head(txs).gas + SumGas(Tail(txs))

\* the calls of the executor among the calls of a construction
Applied(calls) == SelectSeq(calls, LAMBDA c : c[1] = "apply_transaction")

\* C6 (parent consistency): a construction that succeeds with a known parent,
\* passed as argument or loaded from the database on the replay path, has
\* prev_hash = parent.hash, number = parent.number + 1, difficulty =
\* calc_difficulty(parent, timestamp) and a gas limit check_gaslimit accepts.
C6_ParentConsistency ==
    (built.op # "none" /\ built.exc = "" /\ built.parent # <<>>) =>
        LET p == built.parent[1]
            h == built.input.header
        IN /\ h.prevhash = p.hash
           /\ h.number = p.header.number + 1
           /\ h.difficulty = calc_difficulty(p.header, h.timestamp)
           /\ check_gaslimit(p.header, h.gas_limit)

\* C7 (header equality): a Block constructed successfully has its state,
\* transaction and receipts trie roots, its gas_used, bloom, timestamp and
\* difficulty equal to those of the header as received, and the header's
\* uncles_hash is the hash of the uncles; a construction where one of them
\* differs is rejected.
C7_HeaderEquality ==
    (built.op # "none" /\ built.exc = "") =>
        LET h == built.input.header
            b == built.b
        IN /\ root_hash(b.state) = h.state_root
           /\ root_hash(b.objs[b.transactions]) = h.tx_list_root
           /\ root_hash(b.receipts) = h.receipts_root
           /\ b.header.gas_used = h.gas_used
           /\ b.header.bloom = h.bloom
           /\ b.header.timestamp = h.timestamp
           /\ b.header.difficulty = h.difficulty
           /\ h.uncles_hash = built.input.uncles

\* a block with two transactions and an uncle was replayed and accepted
C7_Witness ==
    /\ built.op = "construct" /\ built.exc = "" /\ built.path = "replay"
    /\ Len(built.input.txs) = 2 /\ built.input.uncles # <<>>
    /\ built.b.receipts # EmptyDict
    /\ built.b.header.gas_used = 3

\* C8 (path selection and executor ordering): the trust path is taken exactly
\* when the validated key of the block hash is in the database, or prev_hash is
\* all-zero, or the header's state root is the empty root, or making is set,
\* and then the executor is never called; otherwise gas_used and
\* transaction_count restart from 0, the executor is called once per
\* transaction in the order of the list on the state at the parent's state
\* root, and finalize runs once, after the last transaction and before the
\* header checks.
C8_PathAndOrder ==
    (built.op # "none" /\ built.path # "") =>
        LET h == built.input.header
            tl == built.input.transaction_list
            calls == built.calls
            trusted == \/ header_hash(h) \in built.pre.validated
                       \/ h.prevhash = GENESIS_PREVHASH
                       \/ h.state_root = BLANK_ROOT
                       \/ built.input.making
        IN /\ (built.path = "trust") <=> trusted
           /\ built.path = "trust" =>
                \A i \in DOMAIN calls : calls[i] = <<"checks">>
           /\ (built.path = "replay" /\ calls = <<>>) =>
                built.exc \in {"AssertionError", "UnknownParentException"}
           /\ (built.path = "replay" /\ calls # <<>>) =>
                LET n == Len(tl[1])
                IN /\ \A i \in 1..min(n, Len(calls)) :
                         calls[i] = <<"apply_transaction", tl[1][i]>>
                   /\ Len(calls) <= n => built.exc = "InvalidTransaction"
                   /\ Len(calls) > n =>
                        /\ Len(calls) = n + 2
                        /\ calls[n + 1] = <<"finalize">>
                        /\ calls[n + 2] = <<"checks">>
                        /\ built.b.transaction_count = n
                        /\ built.b.header.gas_used = SumGas(tl[1])
                        /\ (h.number = built.input.mined.number /\ tl = <<built.input.txs>>)
                              => root_hash(built.b.state) = built.input.mined.state_root

\* a block replayed and accepted before is constructed again, with its two
\* transactions, and the trust path is taken because of the validated key
C8_Witness ==
    /\ built.op = "construct" /\ built.exc = "" /\ built.path = "trust"
    /\ header_hash(built.input.header) \in built.pre.validated
    /\ built.input.header.prevhash # GENESIS_PREVHASH
    /\ built.input.header.state_root # BLANK_ROOT
    /\ ~built.input.making
    /\ built.input.transaction_list = <<(<<Tx1, Tx2>>)>>

\* the header's validated key is present and the transaction list passed
\* differs from the block's in a single transaction
C9_Substituted ==
    /\ built.op = "construct"
    /\ header_hash(built.input.header) \in built.pre.validated
    /\ built.input.header.tx_list_root = root_hash(TxTrie(built.input.txs))
    /\ built.input.transaction_list # <<>>
    /\ LET tl == built.input.transaction_list[1]
       IN /\ Len(tl) = Len(built.input.txs)
          /\ Cardinality({i \in DOMAIN tl : tl[i] # built.input.txs[i]}) = 1

C10_SentinelOnlyOnSuccess ==
    [][/\ db'.validated # db.validated =>
            /\ built'.exc = ""
            /\ db'.validated = db.validated \cup {block_hash(built'.b)}
            /\ parent_checks(built'.input.header, built'.input.parent) = ""
            /\ basic_checks(built'.b) = ""
            /\ (is_genesis(built'.b) \/ built'.b.header.nonce.len = 0
                  \/ check_pow(built'.b.header, <<>>).ret)
       /\ (builds' # builds /\ built'.exc # "") => db'.validated = db.validated]_vars

\* a block with a nonce was replayed and accepted, and its key is new
C10_Witness ==
    /\ built.op = "construct" /\ built.exc = "" /\ built.path = "replay"
    /\ built.b.header.nonce.len = 8
    /\ block_hash(built.b) \in db.validated
    /\ block_hash(built.b) \notin built.pre.validated

\* C11: a block constructed without an exception that is not the genesis
\* block and has a non-empty nonce has a header whose check_pow() is true;
\* a header that is not a genesis header, has a non-empty nonce and whose
\* check_pow() is false or raises is refused by the constructor, and its
\* hash has no validated sentinel.
C11_PowVerified ==
    built.op # "none" =>
        /\ (built.exc = "" /\ ~is_genesis(built.b) /\ built.b.header.nonce.len # 0)
              => check_pow(live_header(built.b), <<>>) = [ret |-> TRUE, exc |-> ""]
        /\ (/\ ~(built.input.header.prevhash = GENESIS_PREVHASH
                   /\ built.input.header.nonce = GENESIS_NONCE)
            /\ built.input.header.nonce.len # 0
            /\ check_pow(built.input.header, <<>>) # [ret |-> TRUE, exc |-> ""])
              => /\ built.exc # ""
                 /\ header_hash(built.input.header) \notin db.validated

\* a header with a nonce above the target was refused for its proof of work
C11_Witness ==
    /\ built.op = "construct"
    /\ built.input.fault = "nonce bad"
    /\ built.input.header.nonce.len = 8
    /\ ~check_pow(built.input.header, <<>>).ret
    /\ built.exc = "ValueError: PoW check failed"
    /\ header_hash(built.input.header) \notin db.validated

\* C12: check_pow on a header with a 32-byte mixhash and an 8-byte nonce
\* raises nothing and returns true exactly when the mix digest of
\* hashimoto_light equals the mixhash and result * difficulty <= 2**256, for
\* every difficulty; with a mixhash not of 32 bytes or a nonce not of 8 bytes
\* it raises instead of returning False.
C12_PowIff ==
    (last.op = "check_pow" /\ last.args.nonce = <<>>) =>
        LET h == last.args.h
            out == hashimoto_light(mining_hash(h), h.nonce)
        IN IF h.mixhash.len # 32 \/ h.nonce.len # 8
           THEN last.exc # ""
           ELSE /\ last.exc = ""
                /\ last.ret[1] <=> (/\ out.mix_digest = h.mixhash
                                    /\ out.result * h.difficulty <= TT256)

\* C13: calc_difficulty(parent, timestamp) is
\* max(parent.difficulty + sign * (parent.difficulty // 2048),
\*     min(parent.difficulty, 131072)) with sign = +1 iff
\* timestamp - parent.timestamp < 8: seven seconds after the parent it is the
\* parent's difficulty plus its 2048th, eight seconds after it is the parent's
\* difficulty minus its 2048th bounded below by the minimum, from a parent of
\* at least 131072 it is never below 131072, and a parent of 262144 at time
\* 100 gives 262272 at 107 and 262016 at 108.
C13_CalcDifficulty ==
    last.op = "calc_difficulty" =>
        LET pd == last.args.parent.difficulty
            dt == last.args.timestamp - last.args.parent.timestamp
            r == last.ret[1]
        IN /\ last.exc = ""
           /\ r = max(pd + (IF dt < 8 THEN 1 ELSE 0 - 1) * (pd \div 2048),
                      min(pd, 131072))
           /\ dt = 7 => r = pd + pd \div 2048
           /\ dt = 8 => r = max(pd - pd \div 2048, min(pd, 131072))
           /\ pd >= 131072 => r >= 131072
           /\ (pd = 262144 /\ last.args.parent.timestamp = 100)
                 => /\ last.args.timestamp = 107 => r = 262272
                    /\ last.args.timestamp = 108 => r = 262016

\* calc_difficulty was applied eight seconds after a parent of the minimal
\* difficulty, where the lower bound decides
C13_Witness ==
    /\ last.op = "calc_difficulty"
    /\ last.args.parent.difficulty = 131072
    /\ last.args.timestamp = last.args.parent.timestamp + 8
    /\ last.ret = <<131072>>

\* what the gas limit functions are said to do for the parent with gas limit
\* 3141592 that used 2000000, but for the value calc_gaslimit returns
S3_Parent(p) == p.gas_limit = 3141592 /\ p.gas_used = 2000000

S3_Common ==
    /\ (last.op = "calc_gaslimit" /\ S3_Parent(last.args.parent))
          => /\ decay(last.args.parent) = 3067
             /\ new_contribution(last.args.parent) = 2929
             /\ last.exc = ""
    /\ (last.op = "check_gaslimit" /\ S3_Parent(last.args.parent))
          => /\ last.args.gas_limit = 3141454 => last.ret = <<TRUE>>
             /\ last.args.gas_limit = 3141592 + 3068 => last.ret = <<FALSE>>

\* C14 as stated: for a parent with gas_limit 3141592 and gas_used 2000000,
\* calc_gaslimit computes decay 3067 and contribution 2929 and yields
\* 3141454; check_gaslimit(parent, 3141454) is true and
\* check_gaslimit(parent, 3141592 + 3068) is false.
C14_Yields3141454 ==
    /\ S3_Common
    /\ (last.op = "calc_gaslimit" /\ S3_Parent(last.args.parent))
          => last.ret = <<3141454>>

\* C14, amended: for that parent calc_gaslimit computes decay 3067,
\* contribution 2929 and a first gl of 3141454, which is below
\* GENESIS_GAS_LIMIT, so that it returns
\* min(GENESIS_GAS_LIMIT, parent.gas_limit + decay) = 3141592;
\* check_gaslimit(parent, 3141454) is true and
\* check_gaslimit(parent, 3141592 + 3068) is false.
C14_GasLimitS3 ==
    /\ S3_Common
    /\ (last.op = "calc_gaslimit" /\ S3_Parent(last.args.parent))
          => /\ first_gl(last.args.parent) = 3141454
             /\ last.ret = <<3141592>>

\* calc_gaslimit was applied to the parent of the scenario
C14_Witness ==
    /\ last.op = "calc_gaslimit"
    /\ S3_Parent(last.args.parent)
    /\ last.exc = ""

\* C15 as stated: for every parent, check_gaslimit is true of
\* parent.gas_limit + parent.gas_limit // 1024 and of
\* parent.gas_limit - parent.gas_limit // 1024, and false one unit further
\* in either direction.
C15_BoundaryEveryParent ==
    last.op = "check_gaslimit" =>
        LET pgl == last.args.parent.gas_limit
            c == last.args.gas_limit
        IN /\ c = pgl + pgl \div 1024 => last.ret = <<TRUE>>
           /\ c = pgl - pgl \div 1024 => last.ret = <<TRUE>>
           /\ c = pgl + pgl \div 1024 + 1 => last.ret = <<FALSE>>
           /\ c = pgl - pgl \div 1024 - 1 => last.ret = <<FALSE>>

\* C15, amended: for every parent with
\* parent.gas_limit - parent.gas_limit // 1024 >= MIN_GAS_LIMIT (125000),
\* check_gaslimit is true of parent.gas_limit + parent.gas_limit // 1024 and
\* of parent.gas_limit - parent.gas_limit // 1024; for every parent it is
\* false one unit further in either direction, and false of every value below
\* MIN_GAS_LIMIT, the lower end of the window of a parent under 125122
\* included.
C15_Boundary ==
    last.op = "check_gaslimit" =>
        LET pgl == last.args.parent.gas_limit
            c == last.args.gas_limit
        IN /\ (pgl - pgl \div 1024 >= 125000)
                 => /\ c = pgl + pgl \div 1024 => last.ret = <<TRUE>>
                    /\ c = pgl - pgl \div 1024 => last.ret = <<TRUE>>
           /\ c = pgl + pgl \div 1024 + 1 => last.ret = <<FALSE>>
           /\ c = pgl - pgl \div 1024 - 1 => last.ret = <<FALSE>>
           /\ c < 125000 => last.ret = <<FALSE>>

\* check_gaslimit was applied to the lower end of the window of a parent
\* whose window ends on MIN_GAS_LIMIT
C15_Witness ==
    /\ last.op = "check_gaslimit"
    /\ last.args.parent.gas_limit = 125122
    /\ last.args.gas_limit = 125000
    /\ last.ret = <<TRUE>>

\* ------------------------------------------------------------------ C16
\* what C16 requires of a block validate_uncles accepts, the parent of every
\* uncle being one of the ancestors at the depths given
AcceptedUncles(depths) ==
    (last.op = "validate_uncles" /\ last.ret = <<TRUE>>)
    => /\ Len(last.args.uncles) <= 2
       /\ last.args.header.uncles_hash = last.args.uncles
       /\ \A i \in DOMAIN last.args.uncles :
            /\ check_pow(last.args.uncles[i], <<>>).ret
            /\ \E k \in depths :
                 nth_ancestor(header_hash(last.args.header), k)
                     = last.args.uncles[i].prevhash

\* C16 as stated: validate_uncles returns true only if the block has at most
\* 2 uncles, its uncles hash matches, the proof of work of every uncle
\* verifies, and the prevhash of every uncle is the hash of the 2nd, 3rd,
\* 4th, 5th or 6th ancestor of the block.
C16_UnclesValid == AcceptedUncles(2..6)

\* C16: validate_uncles returns true only if the block has at most 2 uncles,
\* its uncles hash matches, the proof of work of every uncle verifies, and
\* the prevhash of every uncle is the hash of an ancestor at depth 2 to
\* MAX_UNCLE_DEPTH + 1 = 7, the depth at which block.number - uncle.number
\* is MAX_UNCLE_DEPTH.
C16_UnclesValidTo7 == AcceptedUncles(2..(MAX_UNCLE_DEPTH + 1))

\* a block is accepted whose uncle is mined on its 7th ancestor
C16_Witness ==
    /\ last.op = "validate_uncles"
    /\ last.ret = <<TRUE>>
    /\ Len(last.args.uncles) = 1
    /\ nth_ancestor(header_hash(last.args.header), MAX_UNCLE_DEPTH + 1)
           = last.args.uncles[1].prevhash

\* ------------------------------------------------------------------ C17
\* the uncle u of the block with hash h is the header of a direct ancestor
IsAncestorHeader(h, u) ==
    \E k \in 1..ChainLen : nth_ancestor(h, k) = header_hash(u)

\* the uncle u was included as an uncle by an ancestor 1..6 blocks back
IncludedBefore(h, u) ==
    \E k \in 1..6 :
        /\ nth_ancestor(h, k) # None
        /\ \E j \in DOMAIN db.blocks[nth_ancestor(h, k)].uncles :
              db.blocks[nth_ancestor(h, k)].uncles[j] = u

\* some uncle of the validated block duplicates an ancestor, an uncle of an
\* ancestor or another uncle of the block
C17_Duplicate ==
    /\ last.op = "validate_uncles"
    /\ \/ \E i \in DOMAIN last.args.uncles :
             \/ IsAncestorHeader(header_hash(last.args.header), last.args.uncles[i])
             \/ IncludedBefore(header_hash(last.args.header), last.args.uncles[i])
       \/ \E i, j \in DOMAIN last.args.uncles :
             i # j /\ last.args.uncles[i] = last.args.uncles[j]

\* C17: validate_uncles returns false whenever an uncle is the header of a
\* direct ancestor of the block, or was already included as an uncle by an
\* ancestor 1..6 blocks back, or appears twice in the block's own uncles.
C17_DuplicatesRefused ==
    C17_Duplicate => (last.ret = <<FALSE>> /\ last.exc = "")

\* ------------------------------------------------------------------ C18
\* BLOCK_REWARD * (8 + uncle.number - block.number) / 8, truncated
UncleRewardDue(bn, un) ==
    IF 8 + un - bn >= 0 THEN (BLOCK_REWARD * (8 + un - bn)) \div 8
    ELSE 0 - ((BLOCK_REWARD * (bn - un - 8)) \div 8)

\* what the uncles us of block number bn bring the address a
RECURSIVE UnclesDue(_, _, _)
UnclesDue(us, bn, a) ==
    IF us = <<>> THEN 0
    ELSE (IF Head(us).coinbase = a THEN UncleRewardDue(bn, Head(us).number) ELSE 0)
         + UnclesDue(Tail(us), bn, a)

\* what finalize on the block b owes the address a
RewardDue(b, a) ==
    (IF b.header.coinbase = a
     THEN BLOCK_REWARD + (BLOCK_REWARD \div 32) * Len(b.uncles) ELSE 0)
    + UnclesDue(b.uncles, b.header.number, a)

RewardTotal(b) ==
    RewardDue(b, 1) + RewardDue(b, 2)

BalanceOf(b, a) == get_acct_item(b, a, "balance").ret

\* C18: finalize credits the coinbase of the block with BLOCK_REWARD +
\* (BLOCK_REWARD / 32) * |uncles| and the coinbase of every uncle with
\* BLOCK_REWARD * (8 + uncle.number - block.number) / 8 truncated to an
\* integer, increases ether_delta by the total, and leaves the journal empty.
C18_Rewards ==
    [][last'.op = "finalize"
       => /\ \A a \in Addr :
               BalanceOf(block', a) = (BalanceOf(block, a) + RewardDue(block, a)) % TT256
          /\ block'.ether_delta = block.ether_delta + RewardTotal(block)
          /\ Len(block'.objs[block'.journal]) = 0]_vars

\* ------------------------------------------------------------------ C19
\* what a caller can read of the state of a cached block
CachedObs(b) ==
    [balance |-> [a \in Addr |-> get_acct_item(b, a, "balance").ret],
     nonce |-> [a \in Addr |-> get_acct_item(b, a, "nonce").ret],
     code |-> [a \in Addr |-> get_acct_item(b, a, "code").ret],
     storage |-> [a \in Addr |-> [k \in Idx |-> get_storage_data(b, a, k).ret]],
     state_root |-> root_hash(b.state)]

\* C19: no call on a CachedBlock changes a value returned by get_balance,
\* get_nonce, get_code or get_storage_data, the state trie root, or the
\* memoized hash once it is computed.
C19_Immutable ==
    [][mode = "cached"
       => /\ CachedObs(block') = CachedObs(block)
          /\ block.hash_cached # <<>> => block'.hash_cached = block.hash_cached]_vars

\* ------------------------------------------------------------------ C20
\* C20: get_ancestor_list(n), after any earlier get_ancestor_list and
\* get_ancestor calls on the block and on its ancestors, raises nothing and
\* returns n + 1 elements, element i the i-th ancestor of the block, or None
\* past the genesis block (every parent of the chain is in the database).
C20_AncestorList ==
    last.op = "get_ancestor_list"
    => /\ last.exc = ""
       /\ Len(last.ret) = last.args.n + 1
       /\ \A i \in 0..last.args.n :
            last.ret[i + 1] = nth_ancestor(last.args.self, i)

\* ------------------------------------------------------------------ C21
\* the block with the header h has every ancestor down to the genesis block
\* in the database
RECURSIVE ChainedToGenesis(_)
ChainedToGenesis(h) ==
    \/ is_genesis([header |-> h])
    \/ /\ h.number # 0
       /\ h.prevhash \in DOMAIN db.blocks
       /\ ChainedToGenesis(db.blocks[h.prevhash].header)

\* the sum of the difficulties of a block and of its ancestors, by the
\* prevhash fields alone
RECURSIVE SumDifficulty(_)
SumDifficulty(h) ==
    IF h.prevhash = GENESIS_PREVHASH THEN h.difficulty
    ELSE h.difficulty + SumDifficulty(h.prevhash[1])

\* C21: chain_difficulty of a block whose ancestors are stored returns, and
\* returns the sum of the difficulties of the block and of all its ancestors
\* down to the genesis block, whether it read the stored value or computed
\* it; every value stored under a difficulty key decodes to that sum for the
\* block of the key.
C21_ChainDifficulty ==
    /\ \A k \in DOMAIN db.difficulty :
          decode_int(db.difficulty[k]) = SumDifficulty(k[1])
    /\ (last.op = "chain_difficulty" /\ ChainedToGenesis(last.args.self))
       => /\ last.exc = ""
          /\ last.ret = <<SumDifficulty(last.args.self)>>

\* a call that read the stored value of a block above the genesis block, and
\* before it a call that computed and stored
C21_Witness ==
    /\ last.op = "chain_difficulty"
    /\ last.args.stored
    /\ last.exc = ""
    /\ last.args.self.number = ChainLen - 1
    /\ last.ret = <<SumDifficulty(last.args.self)>>
    /\ Cardinality(DOMAIN db.difficulty) = ChainLen - 1

\* ------------------------------------------------------------------ C22
\* C22 (header aliasing): on a constructed block, after any sequence of
\* account mutations, transaction additions, commits and reverts,
\* header.state_root is the root of the state trie with the cache committed,
\* header.tx_list_root the root of the transaction trie and
\* header.receipts_root the root of the receipts trie, whatever the header
\* stored at construction.
C22_HeaderAliases ==
    /\ block.header.block
    /\ header_state_root(block).ret = root_hash(commit_state(block).state)
    /\ header_state_root(block).b = commit_state(block)
    /\ header_tx_list_root(block) = root_hash(block.objs[block.transactions])
    /\ header_receipts_root(block) = root_hash(block.receipts)

\* after a revert, with writes in the cache, the three roots read from the
\* header are not the stored ones
C22_Witness ==
    /\ last.op = "set_balance"
    /\ last.prev = "revert"
    /\ Len(block.objs[block.journal]) > 0
    /\ header_state_root(block).ret # block.header.state_root
    /\ header_state_root(block).ret # root_hash(block.state)
    /\ header_tx_list_root(block) # block.header.tx_list_root
    /\ header_receipts_root(block) # block.header.receipts_root

\* ------------------------------------------------------------------ C23
\* the roots and the hash of a constructed block
Roots(b) ==
    [state_root |-> state_root(b).ret,
     tx_list_root |-> root_hash(b.objs[b.transactions]),
     receipts_root |-> root_hash(b.receipts),
     hash |-> block_hash(b)]

\* C23 (replay determinism): a Block constructed a second time from the same
\* header, transactions, uncles and parent, on the database the first
\* construction left (its sentinel included), is accepted if and only if the
\* first was, and then has the same state root, transaction root, receipts
\* root and hash.
C23_ReplayDeterminism ==
    built.op = "reconstruct"
    => /\ (built.exc = "") = (built.first.exc = "")
       /\ built.exc = "" => Roots(built.b) = Roots(built.first.b)

\* a block with transactions replayed by the first construction and trusted
\* by the second
C23_Witness ==
    /\ built.op = "reconstruct"
    /\ built.first.path = "replay"
    /\ built.first.exc = ""
    /\ built.path = "trust"
    /\ built.exc = ""
    /\ built.input.txs # <<>>
    /\ Roots(built.b).tx_list_root # BLANK_ROOT

\* ------------------------------------------------------------------ C24
\* the data allocates something: one of the setters is called for the address
Allocates(data) ==
    \/ data.wei # <<>> \/ data.balance # <<>> \/ data.code # <<>>
    \/ data.nonce # <<>> \/ DOMAIN data.storage # {}

\* the account a data dict allocates: 'balance' goes before 'wei', and a
\* storage slot allocated 0 is no slot
AllocatedAccount(data) ==
    [nonce |-> IF data.nonce = <<>> THEN 0 ELSE data.nonce[1],
     balance |-> IF data.balance # <<>> THEN data.balance[1]
                 ELSE IF data.wei # <<>> THEN data.wei[1] ELSE 0,
     storage |-> root_hash([k \in {x \in DOMAIN data.storage : data.storage[x] # 0}
                             |-> rlp_encode_int(data.storage[k])]),
     code |-> IF data.code = <<>> THEN "" ELSE data.code[1]]

AllocatedState(start_alloc) ==
    [a \in {x \in DOMAIN start_alloc : Allocates(start_alloc[x])}
       |-> AllocatedAccount(start_alloc[a])]

\* C24 (genesis construction): genesis(db, alloc) returns a block of number
\* 0 with the all-zero prevhash, for which is_genesis() is true, whose state
\* trie is committed and holds exactly the allocated accounts with the
\* allocated balance, nonce, code and storage, and whose journal is empty.
C24_Genesis ==
    built.op = "genesis"
    => /\ built.exc = ""
       /\ built.b.header.number = 0
       /\ built.b.header.prevhash = GENESIS_PREVHASH
       /\ built.b.header.difficulty = built.difficulty
       /\ is_genesis(built.b)
       /\ root_hash(built.b.state) = root_hash(AllocatedState(built.input))
       /\ state_root(built.b).ret = root_hash(AllocatedState(built.input))
       /\ built.b.caches = EmptyCaches
       /\ Len(built.b.objs[built.b.journal]) = 0
       /\ \A a \in Addr, k \in Idx :
            get_storage_data(built.b, a, k).ret =
              IF a \in DOMAIN built.input /\ k \in DOMAIN built.input[a].storage
              THEN built.input[a].storage[k] ELSE 0

\* a genesis block with two allocated accounts, one with balance, nonce, code
\* and storage
C24_Witness ==
    /\ built.op = "genesis"
    /\ DOMAIN built.b.state = Addr
    /\ built.b.state[1].balance = 3
    /\ built.b.state[1].nonce = 2
    /\ built.b.state[1].code = "c"
    /\ get_storage_data(built.b, 1, 1).ret = 200
    /\ built.b.state[2].balance = 10
    /\ is_genesis(built.b)

\* ------------------------------------------------------------------ C25
\* what C25 requires of the storage trie of the account a after the commit
\* of a write of v to slot k
SlotCommitted(b, a, k, v) ==
    IF v = 0
    THEN /\ k \notin DOMAIN TrieAt(get_acct(b, a).storage)
         /\ get_storage_data(b, a, k).ret = 0
    ELSE /\ k \in DOMAIN TrieAt(get_acct(b, a).storage)
         /\ TrieAt(get_acct(b, a).storage)[k] = rlp_encode_int(v)

\* C25: after set_storage_data(addr, k, 0) followed by commit_state, slot k
\* is absent from the storage trie of addr and reads as 0; after
\* set_storage_data(addr, k, v) with v # 0 followed by commit_state the trie
\* holds rlp(v) under the key of k.
C25_ZeroStorageDeleted ==
    [][(last.op = "set_storage_data" /\ last'.op = "commit_state")
         => SlotCommitted(block', last.args[1], last.args[2], last.args[3])]_vars

\* ------------------------------------------------------------------ C26
\* C26: a block whose validated sentinel is in the database can be
\* constructed again with transaction_list = None: the construction raises
\* nothing, whether the block contains transactions or not.
C26_HeaderOnly ==
    built.op = "from_header" => built.exc = ""

\* what init_from_parent is to return for the parent and the timestamp passed
OpenedOnParent ==
    LET p == built.input.parent[1]
        b == built.b
    IN /\ built.exc = ""
       /\ b.header.number = p.header.number + 1
       /\ b.header.prevhash = p.hash
       /\ root_hash(b.state) = p.header.state_root
       /\ state_root(b).ret = p.header.state_root
       /\ b.transaction_count = 0
       /\ root_hash(b.objs[b.transactions]) = BLANK_ROOT
       /\ b.header.gas_used = 0
       /\ b.header.difficulty = calc_difficulty(p.header, b.header.timestamp)
       /\ b.header.gas_limit = calc_gaslimit(p.header)
       /\ built.ancestors = <<block_hash(b)>> \o fresh_ancestors(p.hash)
       /\ \A i \in DOMAIN built.calls : built.calls[i] = <<"checks">>
       /\ b.state = TrieAt(p.header.state_root)
       /\ b.caches.balance = EmptyDict

\* C27: init_from_parent on any successfully constructed parent succeeds and
\* returns a block that is not finalized, with number = parent.number + 1,
\* prevhash = parent.hash, the parent's state root, no transactions, gas_used
\* 0, difficulty = calc_difficulty(parent, timestamp), gas_limit =
\* calc_gaslimit(parent) and the ancestor list [block] + parent.ancestors; no
\* reward is credited.
C27_InitFromParent == built.op = "init_from_parent" => OpenedOnParent

\* the same for the calls with the default nonce on a parent whose gas limit
\* calc_gaslimit can follow
C27_DefaultNonce ==
    (/\ built.op = "init_from_parent"
     /\ built.input.nonce = EMPTY_STRING
     /\ check_gaslimit(built.input.parent[1].header,
                       calc_gaslimit(built.input.parent[1].header)))
        => OpenedOnParent

\* init_from_parent raised on a genesis block the constructor had accepted
C27_AssertionRaised ==
    /\ built.op = "init_from_parent"
    /\ built.exc = "AssertionError"
    /\ built.input.parent[1].header.gas_limit = MIN_GAS_LIMIT - 122

\* init_from_parent raised for its nonce argument on the stored genesis block
C27_NonceRaised ==
    /\ built.op = "init_from_parent"
    /\ built.input.nonce = GoodNonce
    /\ built.input.parent[1].header.gas_limit = GENESIS_GAS_LIMIT
    /\ built.exc = "ValueError: Bad mixhash or nonce length"

\* the bytes of a string as digits in base 256, the first the most significant
RECURSIVE Base256(_)
Base256(string) ==
    IF string = <<>> THEN 0
    ELSE 256 * Base256(SubSeq(string, 1, Len(string) - 1)) + string[Len(string)]

\* C28: for every integer n >= 0, big_endian_to_int(int_to_big_endian(n)) = n;
\* int_to_big_endian(0) is the empty byte string, and for n > 0 the encoding
\* is a string of bytes whose first byte is not zero and whose value in base
\* 256 is n; big_endian_to_int of the empty string is 0.
C28_BigEndianRoundTrip ==
    /\ last.op = "round_trip" => last.ret = <<last.args.integer>>
    /\ last.op = "int_to_big_endian" =>
         LET n == last.args.integer
             s == last.ret[1]
         IN /\ n = 0 => s = <<>>
            /\ n > 0 => /\ Len(s) > 0
                        /\ s[1] # 0
            /\ \A i \in DOMAIN s : s[i] \in 0..255
            /\ Base256(s) = n
    /\ last.op = "big_endian_to_int" =>
         /\ last.ret = <<Base256(last.args.string)>>
         /\ last.args.string = <<>> => last.ret = <<0>>

\* an integer of three bytes was encoded, one whose hex form has an odd
\* number of digits
C28_Witness ==
    /\ last.op = "int_to_big_endian"
    /\ last.args.integer = 65536
    /\ last.ret = <<(<<1, 0, 0>>)>>

\* the value of a cache key, <<>> when the cache or the key is absent
CacheValue(c, key) ==
    IF CacheHas(c, key[1], key[2]) /\ key[3] \in DOMAIN CacheDict(c, key[1], key[2])
    THEN <<CacheDict(c, key[1], key[2])[key[3]]>>
    ELSE <<>>

\* the journal entries of a cache key, in the order they were appended
EntriesOf(entries, key) ==
    SelectSeq(entries, LAMBDA e : <<e.cache, e.ns, e.index>> = key)

\* the cache keys journaled at least n times
WrittenKeys(entries, n) ==
    {key \in {<<entries[i].cache, entries[i].ns, entries[i].index>> :
                 i \in DOMAIN entries} : Len(EntriesOf(entries, key)) >= n}

\* the keys of the caches
CacheKeys ==
    {<<c, 0, a>> : c \in {"balance", "nonce", "code", "storage", "all"}, a \in Addr}
    \cup {<<"slots", a, k>> : a \in Addr, k \in Idx}

\* what a read loads into the cache for a key that is absent: the committed
\* field of the account; nothing for the touched marks and the storage slots
Loaded(b, key) ==
    IF key[1] \in {"all", "slots"} THEN <<>> ELSE <<get_acct(b, key[3])[key[1]]>>

\* C29 as the specification states it: a cache key written several times
\* after snapshot S is left by revert(S) at the value it had at S, or absent
\* if it was absent at S.
C29_ValueAtSnapshot ==
    last.op = "revert" =>
        /\ last.exc = ""
        /\ \A key \in WrittenKeys(last.ret[2], 2) :
              CacheValue(block.caches, key) = CacheValue(last.args[1].caches, key)

\* C29 (revert undoes the journal in LIFO order), amended: revert(S) leaves
\* every cache key written after S, however often, at the value it had
\* before the first of these writes.  That is the value it had at S; for a
\* key absent at S it is absent, or the committed value of the account that a
\* read or a delta loaded into the cache between S and the first write (cache
\* loads are not journaled).  Every other key is as at S or loaded since, the
\* journal has the length it had at S and the accessors return what they
\* returned at S.  With nested snapshots this holds of revert(S2) and of a
\* later revert(S1), each for its own snapshot.
C29_RevertLIFO ==
    last.op = "revert" =>
        LET s == last.args[1]
            undone == last.ret[2]
        IN /\ last.exc = ""
           /\ Len(block.objs[block.journal]) = s.snap.journal_size
           /\ Obs(block) = s.obs
           /\ \A key \in WrittenKeys(undone, 1) :
                 CacheValue(block.caches, key) = EntriesOf(undone, key)[1].prev
           /\ \A key \in CacheKeys :
                 \/ CacheValue(block.caches, key) = CacheValue(s.caches, key)
                 \/ /\ CacheValue(s.caches, key) = <<>>
                    /\ CacheValue(block.caches, key) = Loaded(block, key)

\* a revert to S1 right after a revert to S2 taken later: it undoes two
\* writes of the same storage slot, which is absent from the cache again and
\* read from the storage trie
C29_Witness ==
    /\ last.op = "revert"
    /\ last.prev = "revert"
    /\ Len(EntriesOf(last.ret[2], <<"slots", 1, 0>>)) = 2
    /\ last.ret[1].storage[1][0] = 2
    /\ Obs(block).storage[1][0] = 1
    /\ CacheValue(block.caches, <<"slots", 1, 0>>) = <<>>

\* the journal entries by which reset_storage(address) is known: the storage
\* root of the account set to b''
ResetEntries(entries, address) ==
    SelectSeq(entries, LAMBDA e : /\ e.cache = "storage"
                                  /\ e.index = address
                                  /\ e.post = <<EMPTY_BYTES>>)

Accessors(o) ==
    [balance |-> o.balance, nonce |-> o.nonce, code |-> o.code,
     storage |-> o.storage]

\* C31: commit_state is observationally transparent: for every address and
\* storage index the four accessors return right after commit_state what they
\* returned right before it, and after it the caches and the journal are
\* empty, whatever cache operations, snapshots and reverts came before.
C31_CommitTransparent ==
    last.op = "commit_state" =>
        /\ Accessors(Obs(block)) = Accessors(last.ret[1])
        /\ block.caches = EmptyCaches
        /\ Len(block.objs[block.journal]) = 0

\* the same, for the accessors alone
C31_AccessorsKept ==
    last.op = "commit_state" => Accessors(Obs(block)) = Accessors(last.ret[1])

\* the accessors alone, when every address with a cached storage slot is in
\* caches['all'] at the commit; the state before the commit is not kept, so
\* this is stated of the step
C31_TouchedKept ==
    [][(/\ last'.op = "commit_state"
        /\ \A a \in DOMAIN block.caches.slots :
              block.caches.slots[a] # EmptyDict => a \in DOMAIN block.caches.all)
          => Accessors(Obs(block')) = Accessors(Obs(block))]_vars


\* the cache was flushed (reset_cache gave the block a new journal list) or
\* the trie changed since the snapshot was taken
flushed_since(b, mysnapshot) ==
    b.journal # mysnapshot.journal \/ root_hash(b.state) # mysnapshot.state

\* C32: a revert to a snapshot S taken before a commit_state or a del_account
\* completes without error, and afterwards the accessors return for every
\* address what they returned when S was taken
C32_RevertAcrossCommit ==
    [][(last'.op = "revert" /\ flushed_since(block, last'.args[1].snap))
         => /\ last'.exc = ""
            /\ Accessors(Obs(block')) = Accessors(last'.args[1].obs)]_vars

\* the same, for the reverts that complete without error
C32_ValuesWhenCompleted ==
    [][(last'.op = "revert" /\ flushed_since(block, last'.args[1].snap)
          /\ last'.exc = "")
         => Accessors(Obs(block')) = Accessors(last'.args[1].obs)]_vars

\* the same, for snapshots taken with nothing uncommitted in the journal
C32_CleanSnapshot ==
    [][(last'.op = "revert" /\ flushed_since(block, last'.args[1].snap)
          /\ last'.args[1].snap.journal_size = 0
          /\ last'.args[1].caches = EmptyCaches)
         => /\ last'.exc = ""
            /\ Accessors(Obs(block')) = Accessors(last'.args[1].obs)]_vars


RECURSIVE balance_sum(_, _)
balance_sum(b, addrs) ==
    IF addrs = {} THEN 0
    ELSE LET a == CHOOSE x \in addrs : TRUE
         IN BalanceOf(b, a) + balance_sum(b, addrs \ {a})

\* what a call transfer_value(from, to, v) on b, giving b2 and returning ret,
\* is to do
transferred(b, b2, from_addr, to_addr, v, ret) ==
    IF BalanceOf(b, from_addr) < v
    THEN /\ ret = FALSE
         /\ \A a \in Addr : BalanceOf(b2, a) = BalanceOf(b, a)
         /\ b2.journal = b.journal
         /\ b2.objs[b2.journal] = b.objs[b.journal]
    ELSE /\ ret = TRUE
         /\ \A a \in Addr :
               BalanceOf(b2, a) = BalanceOf(b, a)
                                     - (IF a = from_addr THEN v ELSE 0)
                                     + (IF a = to_addr THEN v ELSE 0)
         /\ balance_sum(b2, Addr) = balance_sum(b, Addr)

\* C33: transfer_value(from, to, v) returns False and changes no balance and
\* not the journal when balance(from) < v; otherwise it returns True, the
\* balance of from is v less, the balance of to v more (the same when from is
\* to), and the sum of all balances is the same
C33_TransferValue ==
    [][last'.op = "transfer_value"
         => transferred(block, block', last'.args[1], last'.args[2],
                        last'.args[3], last'.ret[1])]_vars

\* C33, amended: the same, for the transfers whose credit stays below 2**256:
\* the receiver is the sender, or balance(to) + v < 2**256
C33_TransferValueBelowWord ==
    [][(/\ last'.op = "transfer_value"
        /\ \/ last'.args[1] = last'.args[2]
           \/ BalanceOf(block, last'.args[2]) + last'.args[3] < TT256)
         => transferred(block, block', last'.args[1], last'.args[2],
                        last'.args[3], last'.ret[1])]_vars

\* a transfer of one unit between two accounts was made, after another call
\* of transfer_value
C33_Witness ==
    /\ last.op = "transfer_value" /\ last.prev = "transfer_value"
    /\ last.ret = <<TRUE>>
    /\ last.args[1] # last.args[2] /\ last.args[3] = 1
    /\ BalanceOf(block, last.args[2]) = 1


\* C34: for every parent with gas_limit >= MIN_GAS_LIMIT and
\* 0 <= gas_used <= gas_limit the assertion of calc_gaslimit holds: the value
\* gl it returns differs from parent.gas_limit by at most
\* parent.gas_limit // 1024 and is at least MIN_GAS_LIMIT, whether the first
\* gl is below GENESIS_GAS_LIMIT or not
C34_AssertionHolds ==
    (/\ last.op = "calc_gaslimit"
     /\ last.args.parent.gas_limit >= MIN_GAS_LIMIT
     /\ 0 <= last.args.parent.gas_used
     /\ last.args.parent.gas_used <= last.args.parent.gas_limit)
      => /\ last.exc = ""
         /\ abs(last.ret[1] - last.args.parent.gas_limit)
               <= last.args.parent.gas_limit \div 1024
         /\ last.ret[1] >= MIN_GAS_LIMIT

\* calc_gaslimit was applied to a full parent at MIN_GAS_LIMIT, whose first gl
\* is below GENESIS_GAS_LIMIT
C34_Witness ==
    /\ last.op = "calc_gaslimit"
    /\ last.args.parent.gas_limit = MIN_GAS_LIMIT
    /\ last.args.parent.gas_used = MIN_GAS_LIMIT
    /\ first_gl(last.args.parent) < GENESIS_GAS_LIMIT
    /\ last.ret = <<MIN_GAS_LIMIT + 122>>
    /\ last.exc = ""


\* the amount finalize pays for the uncle of a block of the number given
uncle_reward(number, uncle) ==
    (BLOCK_REWARD * (UNCLE_DEPTH_PENALTY_FACTOR + uncle.number - number))
        \div UNCLE_DEPTH_PENALTY_FACTOR

\* the block validate_uncles was called on, open on the state of the chain
validated_block ==
    live_block(last.args.header, last.args.uncles, EmptyDict)

\* C35: for a block whose uncles pass validate_uncles the number of every
\* uncle lies in block.number - 6 .. block.number - 1, the reward finalize
\* pays for it is above 0 and below BLOCK_REWARD, and finalize leaves the
\* uncle's coinbase with more than it had
C35_UncleRewards ==
    (last.op = "validate_uncles" /\ last.ret = <<TRUE>>)
      => \A i \in DOMAIN last.args.uncles :
            LET uncle == last.args.uncles[i]
            IN /\ uncle.number \in (last.args.header.number - 6)
                                     .. (last.args.header.number - 1)
               /\ uncle_reward(last.args.header.number, uncle) > 0
               /\ uncle_reward(last.args.header.number, uncle) < BLOCK_REWARD
               /\ BalanceOf(finalize(validated_block), uncle.coinbase)
                     > BalanceOf(validated_block, uncle.coinbase)

\* the same, for the uncles whose number is one above the number of the
\* ancestor they are mined on
C35_NumberedOnParent ==
    (last.op = "validate_uncles" /\ last.ret = <<TRUE>>)
      => \A i \in DOMAIN last.args.uncles :
            LET uncle == last.args.uncles[i]
            IN uncle.number = uncle.prevhash[1].number + 1
                 => /\ uncle.number \in (last.args.header.number - 6)
                                          .. (last.args.header.number - 1)
                    /\ uncle_reward(last.args.header.number, uncle) > 0
                    /\ uncle_reward(last.args.header.number, uncle) < BLOCK_REWARD
                    /\ BalanceOf(finalize(validated_block), uncle.coinbase)
                          > BalanceOf(validated_block, uncle.coinbase)


\* C36: once finalize has run a further finalize call changes no balance,
\* not ether_delta and not the state root
C36_FinalizeOnce ==
    [][(last.op = "finalize" /\ last'.op = "finalize")
         => /\ \A a \in Addr : BalanceOf(block', a) = BalanceOf(block, a)
            /\ block'.ether_delta = block.ether_delta
            /\ root_hash(block'.state) = root_hash(block.state)]_vars

\* what holds instead: every finalize call pays the rewards of the block
\* again
C36_FinalizePaysAgain ==
    [][(last.op = "finalize" /\ last'.op = "finalize")
         => /\ block'.ether_delta = block.ether_delta + RewardTotal(block)
            /\ block'.ether_delta > block.ether_delta
            /\ root_hash(block'.state) # root_hash(block.state)]_vars


\* check_pow was called with a nonce of 8 bytes on a header whose mixhash has
\* 32 bytes
nonce_supplied ==
    /\ last.op = "check_pow"
    /\ last.args.nonce # <<>>
    /\ last.args.nonce[1].len = 8
    /\ last.args.h.mixhash.len = 32

\* the proof of work of the header evaluated with the nonce supplied
supplied_verdict ==
    pow_verdict(last.args.h,
                hashimoto_light(mining_hash(last.args.h), last.args.nonce[1]))

\* C37: check_pow(nonce=n) with n of 8 bytes, on a header with a mixhash of
\* 32 bytes, raises nothing and returns the verdict on n, the mixhash, the
\* mining hash, the number and the difficulty, whatever the nonce field of
\* the header holds, the empty nonce of a block under construction included
C37_SuppliedNonce ==
    nonce_supplied => (last.exc = "" /\ last.ret = <<supplied_verdict>>)

\* the same, for the headers whose own nonce field has 8 bytes
C37_StoredNonceOf8 ==
    (nonce_supplied /\ last.args.h.nonce.len = 8)
      => (last.exc = "" /\ last.ret = <<supplied_verdict>>)


\* C38: get_block_header(db, h), for a header stored under the key h, raises
\* nothing and returns that header with a hash property equal to h, also
\* when the hash of the header's encoding is another one
C38_KeyIsHash ==
    last.op = "get_block_header"
      => /\ last.exc = ""
         /\ last.ret[1].header = db.blocks[last.args.blockhash].header
         /\ last.ret[1].hash = last.args.blockhash

\* a header was loaded by a key that is not the hash of its encoding
C38_Witness ==
    /\ last.op = "get_block_header"
    /\ last.prev = "put"
    /\ header_hash(last.ret[1].header) # last.args.blockhash
    /\ last.ret[1].hash = last.args.blockhash

====
